---- MODULE Spec2Model ----
(***************************************************************************)
(* A model of the orchestration code of PDK_Generator:                     *)
(*   - the lumopt shape-optimization loop (Optimization, Optimizer,        *)
(*     FixedStepGradientDescent, ScipyOptimizers, ParameterizedGeometry),  *)
(*   - the co-optimization thread pool of SuperOptimization,               *)
(*   - DRCCheck.run_drc,                                                   *)
(*   - CMLCompilerHelper.generate_cml / cml_compiler.                      *)
(* Parameter values live on an integer grid.  Optimizer-side vectors are   *)
(* the geometry-side vectors multiplied by scaling_factor.  numpy arrays   *)
(* are objects of a heap, so that aliasing and in-place updates are        *)
(* visible.  The external solver is deterministic in the geometry it is    *)
(* given: its figure of merit is minus the distance to a target shape.     *)
(***************************************************************************)
EXTENDS Integers, Sequences, FiniteSets, TLC

\* ------------------------------------------------------------------ bounds
ParamLen == 2              \* number of optimization parameters
HiBound == 3               \* upper bound of every parameter (geometry units)
MaxIter == 2               \* largest max_iter a caller passes
ContinuationMaxIter == 2   \* the model's continuation_max_iter
MaxContinuation == 1       \* how often progress_continuation() may say True
MaxLineSearch == 2         \* most evaluations the wrapped optimizer makes per iteration

\* The optimizer's scaling_factor, as the caller sets it.
ScalingFactor == 2

Idx == 1..ParamLen

RECURSIVE Pow(_, _)
Pow(b, n) == IF n = 0 THEN 1 ELSE b * Pow(b, n - 1)

\* One step of the geometry grid; a power of scaling_factor, so that every division by
\* scaling_factor the code makes is exact.
GridStep == Pow(ScalingFactor, MaxContinuation + 2)

\* The magnitude of a non-zero gradient component of the solver.
GradUnit == ScalingFactor * ScalingFactor

\* ------------------------------------------------------- numpy arithmetic
\* A float that is not a number; it compares false with everything.
NaN == 0 - 999

IsNaN(x) == x = NaN

Abs(x) == IF x < 0 THEN 0 - x ELSE x

Add(x, y) == IF IsNaN(x) \/ IsNaN(y) THEN NaN ELSE x + y

Mul(x, y) == IF IsNaN(x) \/ IsNaN(y) THEN NaN ELSE x * y

\* x / y for the quotients the model meets: exact ones, and 0/0 = nan.
Div(x, y) == IF IsNaN(x) \/ IsNaN(y) \/ y = 0 THEN NaN ELSE x \div y

Minimum(x, y) == IF IsNaN(x) \/ IsNaN(y) THEN NaN ELSE IF x < y THEN x ELSE y

Maximum(x, y) == IF IsNaN(x) \/ IsNaN(y) THEN NaN ELSE IF x > y THEN x ELSE y

VAdd(a, b) == [i \in Idx |-> Add(a[i], b[i])]

VScale(a, k) == [i \in DOMAIN a |-> Mul(a[i], k)]

VDiv(a, k) == [i \in Idx |-> Div(a[i], k)]

VNeg(a) == [i \in Idx |-> Mul(a[i], 0 - 1)]

RECURSIVE SumTo(_, _)
SumTo(a, n) == IF n = 0 THEN 0 ELSE Add(SumTo(a, n - 1), a[n])

Sum(a) == SumTo(a, ParamLen)

RECURSIVE MaxTo(_, _)
MaxTo(a, n) == IF n = 1 THEN a[1] ELSE Maximum(MaxTo(a, n - 1), a[n])

\* np.max(np.abs(a))
MaxAbs(a) == MaxTo([i \in Idx |-> IF IsNaN(a[i]) THEN NaN ELSE Abs(a[i])], ParamLen)

\* np.allclose(a, b): |a - b| <= atol + rtol * |b|; one grid step is within atol.
AllCloseTol == GridStep

AllCloseAlways(a, b) == TRUE
AllClose(a, b) ==
    \A i \in Idx : ~IsNaN(a[i]) /\ ~IsNaN(b[i]) /\ Abs(a[i] - b[i]) <= AllCloseTol

\* ------------------------------------------------------ the external solver
\* Figure of merit of a shape: minus its distance to the target shape.
FomOf(shape, target) ==
    Sum([i \in Idx |-> IF IsNaN(shape[i]) THEN NaN ELSE 0 - Abs(target[i] - shape[i])])

\* Its gradient with respect to every parameter.
GradOf(shape, target) ==
    [i \in Idx |-> IF IsNaN(shape[i]) THEN NaN
                   ELSE IF target[i] > shape[i] THEN GradUnit
                   ELSE IF target[i] < shape[i] THEN 0 - GradUnit ELSE 0]

\* Simulation status codes: 1 ran to full time, 2 auto shutoff, 3 diverged.
StatusValues == {1, 2, 3}

\* --------------------------------------------------------------- the state
VARIABLES
    cfg,            \* what the caller constructed: optimizer kind, flags, start, target
    pc,             \* position of the optimization driver
    error,          \* the exception that ended the run, "" if none
    heap,           \* numpy arrays: address -> vector
    bounds,         \* Optimizer.bounds (scaled), <<>> before initialize
    start_point,    \* Optimizer.start_point (address, 0 if unset)
    current_params, \* Optimizer.current_params (address, 0 for the empty list)
    current_fom,    \* Optimizer.current_fom
    current_gradients, \* Optimizer.current_gradients (<<>> for the empty list)
    max_iter,       \* Optimizer.max_iter
    iteration,      \* Optimizer.iteration
    fom_calls,      \* Optimizer.fom_calls
    optHist,        \* Optimizer.params_hist / fom_hist / gradients_hist / predictedchange_hist
    runHist,        \* Optimization.full_fom_hist / fom_hist / params_hist / grad_hist
    last_grad,      \* Optimization.last_grad (<<>> if unset)
    geo,            \* the geometry: current_params (address), params_hist, continuation rounds left
    sim,            \* the CAD session: project files and the loaded forward_fields
    local,          \* locals of the running optimizer.run(): gradients, wrapped optimizer state
    ghost,          \* history variables: events of the current and last iteration, solves, stops
    drc,            \* a DRCCheck object, its KLayout folder and the run_drc call in progress
    cml,            \* a CMLCompilerHelper, its compilation folder and the generate_cml call
    sup,            \* a SuperOptimization: its thread pool and sub-optimizations
    script,         \* main_y_branch_generation.py: position and results of its checks
    wg,             \* Waveguide_main.run_design_process: position, decision, connections
    cc,             \* one call of CMLCompilerHelper.cml_compiler: arguments and result
    ses,            \* the sessions of Simulation objects and of a CMLCompilerHelper
    tg,             \* techgen: a Technology, a LayerStack and a DRC object
    call            \* one call of a function of the toolkit: arguments and result

optVars == <<cfg, pc, error, heap, bounds, start_point, current_params, current_fom,
             current_gradients, max_iter, iteration, fom_calls, optHist, runHist,
             last_grad, geo, sim, local, ghost>>

\* The state of the scripts around the components.
toolVars == <<cc, ses, tg, call>>

extVars == <<script, wg, toolVars>>

\* No value: an unset attribute, an unbound local.
None == <<>>

\* The object has no forward_fields (adjoint_fields) attribute yet.
NoFields == [has |-> FALSE, iter |-> 0, shape |-> <<>>]

\* A vector with every component v.
Const(v) == [i \in Idx |-> v]

\* geometry.bounds as the caller gives them: (min, max) per parameter.
GeoBounds == [i \in Idx |-> <<0, HiBound * GridStep>>]

\* Initial parameter vectors within the bounds; the last one has one value more
\* than there are bounds (initial_params read from a file of another design).
StartChoices ==
    {Const(0), Const(HiBound * GridStep),
     [i \in Idx |-> IF i = 1 THEN 0 ELSE HiBound * GridStep],
     [i \in 1..(ParamLen + 1) |-> 0]}

\* Target shapes of the solver.
TargetChoices == {Const(HiBound * GridStep), Const(GridStep), Const(GridStep \div 2)}

Configs ==
    [kind : {"gd", "scipy"},
     all_params_equal : BOOLEAN,        \* FixedStepGradientDescent only
     noise_magnitude : {0, 1},          \* FixedStepGradientDescent only
     method : {"L-BFGS-B", "SLSQP"},    \* ScipyOptimizers only
     autoscale : BOOLEAN,               \* scale_initial_gradient_to # 0 (ScipyOptimizers only)
     store_all_simulations : BOOLEAN,
     max_iter : 1..MaxIter,
     continuation : 0..MaxContinuation, \* 0: the geometry has no progress_continuation
     start : StartChoices,
     target : TargetChoices]

\* Fields that one optimizer kind does not read are fixed for it.
ValidConfig(c) ==
    /\ c.kind = "gd" => c.method = "L-BFGS-B" /\ ~c.autoscale
    /\ c.kind = "scipy" => ~c.all_params_equal /\ c.noise_magnitude = 0

OptInitWith(c) ==
    /\ cfg = c
    /\ pc = "constructed"
    /\ error = ""
    /\ heap = <<cfg.start>>
    /\ bounds = None
    /\ start_point = 0
    /\ current_params = 0
    /\ current_fom = None
    /\ current_gradients = None
    /\ max_iter = cfg.max_iter
    /\ iteration = 0
    /\ fom_calls = 0
    /\ optHist = [params |-> <<>>, fom |-> <<>>, gradients |-> <<>>, predictedchange |-> <<>>]
    /\ runHist = [full_fom |-> <<>>, fom |-> <<>>, params |-> <<>>, grad |-> <<>>]
    /\ last_grad = None
    /\ geo = [current_params |-> 1,
              params_hist |-> [i \in DOMAIN cfg.start |-> [val |-> cfg.start[i]]],
              continuation |-> cfg.continuation]
    /\ sim = [files |-> <<>>, forward_fields |-> NoFields, adjoint_fields |-> NoFields]
    /\ local = [gradients |-> None, x |-> 0, trial |-> 0, f |-> 0, g |-> None,
                 alpha |-> 0, nit |-> 0, first |-> FALSE]
    /\ ghost = [events |-> <<>>, lastIter |-> <<>>, adjoint |-> <<>>, status |-> 0,
                passes |-> 0, stop |-> "", continued |-> 0]

\* ---------------------------------------------------- Optimization handlers
\* The whole state as one record, which the handlers below take and return;
\* err, fom and jac carry a handler's exception and return value.
World ==
    [cfg |-> cfg, pc |-> pc, error |-> error, heap |-> heap, bounds |-> bounds,
     start_point |-> start_point, current_params |-> current_params,
     current_fom |-> current_fom, current_gradients |-> current_gradients,
     max_iter |-> max_iter, iteration |-> iteration, fom_calls |-> fom_calls,
     optHist |-> optHist, runHist |-> runHist, last_grad |-> last_grad, geo |-> geo,
     sim |-> sim, local |-> local, ghost |-> ghost,
     err |-> "", fom |-> 0, jac |-> None]

\* The state after a handler: an exception ends the run.
Becomes(w, next) ==
    /\ cfg' = w.cfg
    /\ pc' = IF w.err # "" THEN "failed" ELSE next
    /\ error' = w.err
    /\ UNCHANGED <<drc, cml, sup, extVars>>
    /\ heap' = w.heap
    /\ bounds' = w.bounds
    /\ start_point' = w.start_point
    /\ current_params' = w.current_params
    /\ current_fom' = w.current_fom
    /\ current_gradients' = w.current_gradients
    /\ max_iter' = w.max_iter
    /\ iteration' = w.iteration
    /\ fom_calls' = w.fom_calls
    /\ optHist' = w.optHist
    /\ runHist' = w.runHist
    /\ last_grad' = w.last_grad
    /\ geo' = w.geo
    /\ sim' = w.sim
    /\ local' = w.local
    /\ ghost' = w.ghost

\* iter = self.optimizer.iteration if self.store_all_simulations else 0
IterOf(w) == IF w.cfg.store_all_simulations THEN w.iteration ELSE 0

\* Optimizer.concurrent_adjoint_solves / ScipyOptimizers.concurrent_adjoint_solves
concurrent_adjoint_solves ==
    IF cfg.kind = "scipy" THEN cfg.method \in {"L-BFGS-B", "BFGS"} ELSE FALSE

\* FixedStepGradientDescent.max_dx and noise_magnitude, as the caller sets them
\* (geometry units); __init__ multiplies both by scaling_factor.
max_dx == GridStep * ScalingFactor

noise_magnitude == cfg.noise_magnitude * GridStep * ScalingFactor

\* A project file: the shape it was saved with, and the solver status once it ran
\* (status 0: layout mode, no results).
File(shape) == [shape |-> shape, status |-> 0]

SetFile(w, name, f) == [w EXCEPT !.sim.files = (name :> f) @@ @]

\* ParameterizedGeometry.update_geometry: keeps the reference it is given.
update_geometry(w, params) ==
    [w EXCEPT !.geo.current_params = params,
              !.geo.params_hist = Append(@, [ref |-> params])]

\* Optimization.make_forward_sim
make_forward_sim(w, params, iter) ==
    LET w1 == update_geometry(w, params)
        shape == w1.heap[w1.geo.current_params]
    IN  [SetFile(w1, <<"forward", iter>>, File(shape))
            EXCEPT !.ghost.events = Append(@, "forward_sim")]

\* Optimization.make_adjoint_sim: asserts that the geometry holds params.
make_adjoint_sim_unchecked(w, params, iter) ==
    LET shape == w.heap[w.geo.current_params]
    IN  [SetFile(w, <<"adjoint", iter>>, File(shape))
            EXCEPT !.ghost.events = Append(@, "adjoint_sim"),
                   !.ghost.adjoint = <<[params |-> w.heap[params], shape |-> shape]>>]
make_adjoint_sim(w, params, iter) ==
    IF ~AllClose(w.heap[params], w.heap[w.geo.current_params])
    THEN [w EXCEPT !.err = "AssertionError"]
    ELSE make_adjoint_sim_unchecked(w, params, iter)

\* fdtd.runjobs(): every queued job is solved; out.bridge: the scripting bridge fails.
RECURSIVE runjobs(_, _, _)
runjobs(w, jobs, out) ==
    IF w.err # "" \/ jobs = <<>> THEN w
    ELSE IF out.bridge THEN [w EXCEPT !.err = "LumApiError", !.ghost.status = 0 - 1]
    ELSE LET name == Head(jobs)
             st == IF name[1] = "forward" THEN out.fwd ELSE out.adj
         IN  runjobs([w EXCEPT !.sim.files[name].status = st], Tail(jobs), out)

\* Optimization.check_simulation_was_successful
StatusOkMutant(status) == TRUE
StatusOk(status) == ~(status # 1 /\ status # 2)

\* Optimization.process_forward_sim; the target figure of merit is 0.
process_forward_sim(w, iter) ==
    IF w.err # "" THEN w
    ELSE LET f == w.sim.files[<<"forward", iter>>]
             fom == FomOf(f.shape, w.cfg.target)
         IN  IF ~StatusOk(f.status)
             THEN [w EXCEPT !.err = "UserWarning", !.ghost.status = f.status]
             ELSE [w EXCEPT !.ghost.status = f.status,
                            !.sim.forward_fields = [has |-> TRUE, iter |-> iter, shape |-> f.shape],
                            !.sim.files[<<"forward", iter>>].status =
                                IF w.cfg.store_all_simulations THEN 0 ELSE @,
                            !.runHist.full_fom = Append(@, 0 - fom),
                            !.fom = fom]

\* Optimization.process_adjoint_sim: a file still in layout mode is run first.
process_adjoint_sim(w, iter, out) ==
    IF w.err # "" THEN w
    ELSE LET f == w.sim.files[<<"adjoint", iter>>]
             status == IF f.status = 0 THEN out.adj ELSE f.status
         IN  IF ~StatusOk(status)
             THEN [w EXCEPT !.err = "UserWarning", !.ghost.status = status]
             ELSE [w EXCEPT !.ghost.status = status,
                            !.sim.adjoint_fields = [has |-> TRUE, iter |-> iter, shape |-> f.shape],
                            !.sim.files[<<"adjoint", iter>>].status =
                                IF w.cfg.store_all_simulations THEN 0 ELSE status]

\* Optimization.calculate_gradients
calculate_gradients(w) ==
    IF w.err # "" THEN w
    ELSE [w EXCEPT !.jac = GradOf(w.sim.forward_fields.shape, w.cfg.target)]

\* Optimization.callable_fom(params); params is an address, out the solver's outcomes.
callable_fom(w, params, out) ==
    LET iter == IterOf(w)
        w1 == make_forward_sim(w, params, iter)
        w2 == IF concurrent_adjoint_solves THEN make_adjoint_sim(w1, params, iter) ELSE w1
        jobs == IF concurrent_adjoint_solves
                THEN << <<"forward", iter>>, <<"adjoint", iter>> >>
                ELSE << <<"forward", iter>> >>
    IN  process_forward_sim(runjobs(w2, jobs, out), iter)

\* Optimization.callable_jac(params)
callable_jac_redo(w, params, out) ==
    LET iter == IterOf(w)
        w1 == make_forward_sim(w, params, iter)
        w2 == make_adjoint_sim(w1, params, iter)
        w3 == runjobs(w2, << <<"forward", iter>>, <<"adjoint", iter>> >>, out)
        w4 == calculate_gradients(process_adjoint_sim(process_forward_sim(w3, iter), iter, out))
    IN  IF w4.err # "" THEN w4 ELSE [w4 EXCEPT !.last_grad = w4.jac]
callable_jac(w, params, out) ==
    LET iter == IterOf(w)
        no_forward_fields == ~w.sim.forward_fields.has
        params_changed == ~AllClose(w.heap[params], w.heap[w.geo.current_params])
        redo_forward_sim == no_forward_fields \/ params_changed
        do_adjoint_sim == \/ redo_forward_sim
                          \/ ~concurrent_adjoint_solves
                          \/ w.sim.forward_fields.iter # iter
        w1 == IF redo_forward_sim THEN make_forward_sim(w, params, iter) ELSE w
        w2 == IF do_adjoint_sim THEN make_adjoint_sim(w1, params, iter) ELSE w1
        jobs == (IF redo_forward_sim THEN << <<"forward", iter>> >> ELSE <<>>)
                \o (IF do_adjoint_sim THEN << <<"adjoint", iter>> >> ELSE <<>>)
        w3 == runjobs(w2, jobs, out)
        w4 == IF redo_forward_sim THEN process_forward_sim(w3, iter) ELSE w3
        w5 == calculate_gradients(process_adjoint_sim(w4, iter, out))
    IN  IF w5.err # "" THEN w5 ELSE [w5 EXCEPT !.last_grad = w5.jac]

\* What the solver may answer to one handler call.
Outcomes == [fwd : StatusValues, adj : StatusValues, bridge : BOOLEAN]

\* -------------------------------------------------------- Optimizer handlers
\* A new numpy array holding v; its address is Len(w.heap) + 1 before the call.
New(w, v) == [w EXCEPT !.heap = Append(@, v)]

Fresh(w) == Len(w.heap) + 1

Event(w, e) == [w EXCEPT !.ghost.events = Append(@, e)]

Last(seq) == seq[Len(seq)]

\* Optimization.plotting_function(params): params is kept as it is given.
plotting_function(w, params) ==
    [w EXCEPT !.runHist.fom = Append(@, Last(w.runHist.full_fom)),
              !.runHist.params = Append(@, params),
              !.runHist.grad = Append(@, VDiv(w.last_grad, ScalingFactor))]

\* Optimizer.callback(args[0]): records copies, then plots args[0] / scaling_factor.
callback_nocopy(w, arg) ==
    LET w1 == [w EXCEPT !.optHist.params = Append(@, w.current_params),
                        !.optHist.fom = Append(@, w.current_fom),
                        !.optHist.gradients =
                            IF Len(w.current_gradients) > 0
                            THEN Append(@, w.current_gradients) ELSE @]
        w2 == New(w1, VDiv(w1.heap[arg], ScalingFactor))
        w3 == plotting_function(w2, Fresh(w1))
    IN  [w3 EXCEPT !.iteration = @ + 1,
                   !.ghost.lastIter = Append(w3.ghost.events, "record"),
                   !.ghost.events = <<>>]
callback(w, arg) ==
    LET w0 == New(w, w.heap[w.current_params])
        w1 == [w0 EXCEPT !.optHist.params = Append(@, Fresh(w)),
                         !.optHist.fom = Append(@, w.current_fom),
                         !.optHist.gradients =
                             IF Len(w.current_gradients) > 0
                             THEN Append(@, w.current_gradients) ELSE @]
        w2 == New(w1, VDiv(w1.heap[arg], ScalingFactor))
        w3 == plotting_function(w2, Fresh(w1))
    IN  [w3 EXCEPT !.iteration = @ + 1,
                   !.ghost.lastIter = Append(w3.ghost.events, "record"),
                   !.ghost.events = <<>>]

\* Maximizer.define_callables: callable_fom_local handing on params itself instead
\* of the new array params / scaling_factor.
max_callable_fom_local_byref(w, params, out) ==
    LET w1 == callable_fom(Event(w, "evaluate"), params, out)
    IN  IF w1.err # "" THEN w1 ELSE [w1 EXCEPT !.current_fom = w1.fom]
\* Maximizer.define_callables: callable_fom_local(params)
max_callable_fom_local(w, params, out) ==
    LET w0 == Event(New(w, VDiv(w.heap[params], ScalingFactor)), "evaluate")
        w1 == callable_fom(w0, Fresh(w), out)
    IN  IF w1.err # "" THEN w1 ELSE [w1 EXCEPT !.current_fom = w1.fom]

\* Maximizer.define_callables: callable_jac_local(params)
max_callable_jac_local(w, params, out) ==
    LET w0 == Event(New(w, VDiv(w.heap[params], ScalingFactor)), "gradient")
        w1 == callable_jac(w0, Fresh(w), out)
    IN  IF w1.err # "" THEN w1
        ELSE [w1 EXCEPT !.current_gradients = VDiv(w1.jac, ScalingFactor),
                        !.jac = VDiv(w1.jac, ScalingFactor)]

\* Minimizer.define_callables: callable_fom_local(params)
min_callable_fom_local(w, params, out) ==
    LET w0 == Event(New(w, VDiv(w.heap[params], ScalingFactor)), "evaluate")
        w1 == callable_fom(w0, Fresh(w), out)
    IN  IF w1.err # "" THEN w1
        ELSE [w1 EXCEPT !.current_fom = Mul(w1.fom, 0 - 1),
                        !.current_params = params,
                        !.fom_calls = @ + 1,
                        !.fom = Mul(w1.fom, 0 - 1)]

\* Minimizer.define_callables: callable_jac_local(params); the first gradient call
\* after the first evaluation records the starting point.
min_callable_jac_local(w, params, out) ==
    LET w0 == Event(New(w, VDiv(w.heap[params], ScalingFactor)), "gradient")
        w1 == callable_jac(w0, Fresh(w), out)
        w2 == [w1 EXCEPT !.current_gradients = VNeg(VDiv(w1.jac, ScalingFactor)),
                         !.jac = VNeg(VDiv(w1.jac, ScalingFactor))]
    IN  IF w1.err # "" THEN w1
        ELSE IF w2.fom_calls = 1 THEN callback(w2, params) ELSE w2

\* Optimizer.initialize and reset_start_params, up to the call of auto_detect_scaling.
reset_start_params(w, start_params) ==
    New([w EXCEPT !.start_point = Fresh(w)], VScale(w.heap[start_params], ScalingFactor))

\* Optimizer.initialize without the test of the shape of the bounds.
initialize_unchecked(w, start_params) ==
    reset_start_params(
        [w EXCEPT !.bounds = [i \in Idx |-> <<GeoBounds[i][1] * ScalingFactor,
                                              GeoBounds[i][2] * ScalingFactor>>]],
        start_params)
\* Lines 72-76: there must be two bounds for each optimization parameter.
initialize(w, start_params) ==
    IF Len(GeoBounds) # Len(w.heap[start_params])
    THEN [w EXCEPT !.bounds = GeoBounds, !.err = "UserWarning"]
    ELSE reset_start_params(
             [w EXCEPT !.bounds = [i \in Idx |-> <<GeoBounds[i][1] * ScalingFactor,
                                                   GeoBounds[i][2] * ScalingFactor>>]],
             start_params)

\* FixedStepGradientDescent.calculate_change
calculate_change(gradients, dx, all_params_equal) ==
    IF all_params_equal
    THEN [i \in Idx |-> IF ~IsNaN(gradients[i]) /\ gradients[i] > 0 THEN dx ELSE 0 - dx]
    ELSE [i \in Idx |-> Mul(Div(gradients[i], MaxAbs(gradients)), dx)]

\* FixedStepGradientDescent.enforce_bounds
enforce_bounds(params, bnds) ==
    [i \in Idx |-> Maximum(bnds[i][1], Minimum(bnds[i][2], params[i]))]

\* The noise add_noise may draw: noise_magnitude * (rand - 0.5) * 2, at its extremes.
Noises == [Idx -> {0 - noise_magnitude, noise_magnitude}]

\* FixedStepGradientDescent.run, lines 43-47: the update of one iteration.  The
\* change is added in place; add_noise and enforce_bounds make new arrays.
gd_update_unclipped(w, noise) ==
    LET gradients == w.local.gradients
        change == calculate_change(gradients, max_dx, w.cfg.all_params_equal)
        moved == VAdd(w.heap[w.current_params], change)
        w1 == Event([w EXCEPT !.heap[w.current_params] = moved], "update")
        w2 == New(w1, VAdd(moved, noise))
    IN  [w2 EXCEPT !.current_params = Fresh(w1),
                   !.optHist.predictedchange =
                       Append(@, Sum([i \in Idx |-> Mul(gradients[i], change[i])]))]
gd_update(w, noise) ==
    LET gradients == w.local.gradients
        change == calculate_change(gradients, max_dx, w.cfg.all_params_equal)
        moved == VAdd(w.heap[w.current_params], change)
        w1 == [w EXCEPT !.heap[w.current_params] = moved]
        w2 == Event(w1, "update")
        w3 == New(w2, enforce_bounds(VAdd(moved, noise), w.bounds))
    IN  [Event(w3, "clip") EXCEPT
            !.current_params = Fresh(w2),
            !.optHist.predictedchange =
                Append(@, Sum([i \in Idx |-> Mul(gradients[i], change[i])]))]

\* ------------------------------------------------- the wrapped scipy optimizer
\* spo.minimize with bounds: a projected descent with a backtracking line search.
\* One grid step, in the optimizer's scaled units.
Unit == GridStep * ScalingFactor

Sign(x) == IF x > 0 THEN 1 ELSE IF x < 0 THEN 0 - 1 ELSE 0

\* The trial point of step length alpha from x against the gradient g, projected
\* onto the bounds.
TrialPoint(x, g, alpha, bnds) ==
    [i \in Idx |-> Maximum(bnds[i][1],
                           Minimum(bnds[i][2], x[i] - Sign(g[i]) * alpha * Unit))]

\* The projected gradient vanishes (pgtol).
ProjectedGradientZero(x, g, bnds) ==
    \A i \in Idx : \/ g[i] = 0
                   \/ g[i] > 0 /\ x[i] = bnds[i][1]
                   \/ g[i] < 0 /\ x[i] = bnds[i][2]

\* ------------------------------------------------------------------ actions
\* Optimization.run -> initialize -> Optimizer.initialize
Initialize ==
    /\ pc = "constructed"
    /\ Becomes(initialize(World, geo.current_params),
               IF cfg.autoscale THEN "autoscale" ELSE "initialized")

\* Optimizer.auto_detect_scaling: one gradient call at the start point.
AutoDetectScaling ==
    /\ pc = "autoscale"
    /\ \E out \in Outcomes :
          Becomes(IF cfg.kind = "gd"
                  THEN max_callable_jac_local(World, start_point, out)
                  ELSE min_callable_jac_local(World, start_point, out),
                  IF ghost.passes = 0 THEN "initialized" ELSE "run")

\* Optimization.initialize, last line: self.fom_hist = []
FinishInitialize ==
    /\ pc = "initialized"
    /\ Becomes([World EXCEPT !.runHist.fom = <<>>], "run")

\* FixedStepGradientDescent.run, line 38
GD_Enter ==
    /\ pc = "run" /\ cfg.kind = "gd"
    /\ Becomes([World EXCEPT !.current_params = start_point,
                             !.local.gradients = None,
                             !.ghost.passes = @ + 1,
                             !.ghost.events = <<>>,
                             !.ghost.stop = ""], "gd_loop")

\* line 39, condition true
GD_Loop ==
    /\ pc = "gd_loop" /\ iteration < max_iter
    /\ Becomes(World, "gd_fom")

\* lines 40-41
GD_Fom ==
    /\ pc = "gd_fom"
    /\ \E out \in Outcomes :
          Becomes(max_callable_fom_local(World, current_params, out), "gd_jac")

\* line 42
GD_Jac ==
    /\ pc = "gd_jac"
    /\ \E out \in Outcomes :
          LET w == max_callable_jac_local(World, current_params, out)
          IN  Becomes([w EXCEPT !.local.gradients = w.jac], "gd_update")

\* lines 43-47
GD_Update ==
    /\ pc = "gd_update"
    /\ \E noise \in Noises : Becomes(gd_update(World, noise), "gd_callback")

\* line 48: self.callback(self.current_params / self.scaling_factor)
GD_Callback ==
    /\ pc = "gd_callback"
    /\ LET w0 == New(World, VDiv(heap[current_params], ScalingFactor))
       IN  Becomes(callback(w0, Fresh(World)), "gd_loop")

\* line 39 condition false, lines 49-52: res reads the local gradients.
GD_ReturnEarly ==
    /\ pc = "gd_loop" /\ local.gradients # None
    /\ Becomes([World EXCEPT !.ghost.stop = "max_iter"], "returned")
GD_Return ==
    /\ pc = "gd_loop" /\ ~(iteration < max_iter)
    /\ Becomes(IF local.gradients = None
               THEN [World EXCEPT !.err = "UnboundLocalError"]
               ELSE [World EXCEPT !.ghost.stop = "max_iter"], "returned")

\* ScipyOptimizers.run: spo.minimize starts from x0 = start_point.
SP_Enter ==
    /\ pc = "run" /\ cfg.kind = "scipy"
    /\ LET w0 == New(World, heap[start_point])
       IN  Becomes([w0 EXCEPT !.local = [gradients |-> None, x |-> Fresh(World),
                                         trial |-> Fresh(World), f |-> 0, g |-> None,
                                         alpha |-> 0, nit |-> 0, first |-> TRUE],
                              !.ghost.passes = @ + 1,
                              !.ghost.events = <<>>,
                              !.ghost.stop = ""], "sp_fom")

\* fun(x): callable_fom_local at the trial point
SP_Fom ==
    /\ pc = "sp_fom"
    /\ \E out \in Outcomes :
          Becomes(min_callable_fom_local(World, local.trial, out), "sp_jac")

\* jac(x): callable_jac_local at the trial point
SP_Jac ==
    /\ pc = "sp_jac"
    /\ \E out \in Outcomes :
          LET w == min_callable_jac_local(World, local.trial, out)
          IN  Becomes([w EXCEPT !.local.gradients = w.jac], "sp_step")

\* The evaluation at x0 is the starting value.
SP_Start ==
    /\ pc = "sp_step" /\ local.first
    /\ Becomes([World EXCEPT !.local.first = FALSE, !.local.f = current_fom,
                             !.local.g = local.gradients], "sp_check")

\* The trial point decreases the function: it is the next iterate, callback(xk).
SP_Accept ==
    /\ pc = "sp_step" /\ ~local.first /\ current_fom < local.f
    /\ LET w0 == New(World, heap[local.trial])
           w1 == [w0 EXCEPT !.local.x = local.trial, !.local.f = current_fom,
                            !.local.g = local.gradients, !.local.nit = @ + 1]
       IN  Becomes(callback(w1, Fresh(World)), "sp_check")

\* It does not: the line search tries a shorter step.
SP_Backtrack ==
    /\ pc = "sp_step" /\ ~local.first /\ ~(current_fom < local.f) /\ local.alpha > 1
    /\ LET t == TrialPoint(heap[local.x], local.g, local.alpha - 1, bounds)
           w0 == Event(Event(New(World, t), "update"), "clip")
       IN  Becomes([w0 EXCEPT !.local.trial = Fresh(World),
                              !.local.alpha = @ - 1], "sp_fom")

\* No step decreases the function (ftol).
SP_Stagnate ==
    /\ pc = "sp_step" /\ ~local.first /\ ~(current_fom < local.f) /\ local.alpha <= 1
    /\ Becomes([World EXCEPT !.ghost.stop = "tol"], "returned")

\* The projected gradient vanishes (pgtol).
SP_Converged ==
    /\ pc = "sp_check"
    /\ ProjectedGradientZero(heap[local.x], local.g, bounds)
    /\ Becomes([World EXCEPT !.ghost.stop = "tol"], "returned")

\* options maxiter
SP_MaxIter ==
    /\ pc = "sp_check"
    /\ ~ProjectedGradientZero(heap[local.x], local.g, bounds)
    /\ local.nit >= max_iter
    /\ Becomes([World EXCEPT !.ghost.stop = "max_iter"], "returned")

\* The next iteration starts its line search at the longest step.
SP_Iterate ==
    /\ pc = "sp_check"
    /\ ~ProjectedGradientZero(heap[local.x], local.g, bounds)
    /\ local.nit < max_iter
    /\ LET t == TrialPoint(heap[local.x], local.g, MaxLineSearch, bounds)
           w0 == Event(Event(New(World, t), "update"), "clip")
       IN  Becomes([w0 EXCEPT !.local.trial = Fresh(World),
                              !.local.alpha = MaxLineSearch], "sp_fom")

\* Optimization.run, lines 408-410: the geometry has progress_continuation.
StartContinuation ==
    /\ pc = "returned" /\ cfg.continuation > 0 /\ ghost.continued = 0
    /\ Becomes([World EXCEPT !.max_iter = ContinuationMaxIter], "continuation")

\* lines 411-412: progress_continuation() is true; reset_start_params(params_hist[-1], 0.05)
ProgressContinuation ==
    /\ pc = "continuation" /\ geo.continuation > 0
    /\ LET w0 == [World EXCEPT !.geo.continuation = @ - 1, !.ghost.continued = @ + 1]
       IN  Becomes(reset_start_params(w0, Last(runHist.params)), "autoscale")

\* line 413 returned: the while condition is tested again.
NextContinuation ==
    /\ pc = "returned" /\ ghost.continued > 0
    /\ Becomes(World, "continuation")

\* lines 415-416: the run returns.
Finish ==
    /\ \/ pc = "returned" /\ cfg.continuation = 0
       \/ pc = "continuation" /\ geo.continuation = 0
    /\ Becomes(World, "done")

OptNext ==
    \/ Initialize \/ AutoDetectScaling \/ FinishInitialize
    \/ GD_Enter \/ GD_Loop \/ GD_Fom \/ GD_Jac \/ GD_Update \/ GD_Callback \/ GD_Return
    \/ SP_Enter \/ SP_Fom \/ SP_Jac \/ SP_Start \/ SP_Accept \/ SP_Backtrack
    \/ SP_Stagnate \/ SP_Converged \/ SP_MaxIter \/ SP_Iterate
    \/ StartContinuation \/ ProgressContinuation \/ NextContinuation \/ Finish


OptInit == \E c \in {x \in Configs : ValidConfig(x)} : OptInitWith(c)

\* The optimization at rest, for the specifications of the other components.
OptIdle ==
    OptInitWith([kind |-> "gd", all_params_equal |-> FALSE, noise_magnitude |-> 0,
                 method |-> "L-BFGS-B", autoscale |-> FALSE,
                 store_all_simulations |-> FALSE, max_iter |-> 1, continuation |-> 0,
                 start |-> Const(0), target |-> Const(GridStep)])

\* ------------------------------------------------------------------ DRCCheck
MaxDrcCalls == 2     \* run_drc calls on one DRCCheck object
MaxDrcErrors == 2    \* most items of a DRC results file

Techs == {"Cheam", "EBeam"}

\* The .lydrc files a KLayout folder may hold, in os.walk order.
DeckFiles == <<"Cheam_DRC.lydrc", "EBeam_DRC.lydrc", "SiEPIC_EBeam_DRC.lydrc">>

\* file.endswith(".lydrc") and "{}_DRC".format(techname) in file
DeckMatches(techname, file) ==
    \/ techname = "Cheam" /\ file = "Cheam_DRC.lydrc"
    \/ techname = "EBeam" /\ file \in {"EBeam_DRC.lydrc", "SiEPIC_EBeam_DRC.lydrc"}

\* run_drc lines 159-164: every matching file overwrites drc_file_path.
RECURSIVE walk(_, _, _, _)
walk(techname, decks, n, path) ==
    IF n > Len(DeckFiles) THEN path
    ELSE walk(techname, decks, n + 1,
              IF n \in decks /\ DeckMatches(techname, DeckFiles[n]) THEN DeckFiles[n] ELSE path)

\* What the operator may type at a prompt.
Answers == {"Yes", "yes", "YES", "Y", "y", "No", "no", "n", ""}

\* str.lower()
Lower(str) ==
    CASE str \in {"Yes", "YES"} -> "yes"
      [] str = "Y" -> "y"
      [] str = "No" -> "no"
      [] OTHER -> str

\* DRCCheck.prompt_drc_check, on the line the operator typed
prompt_drc_check(result) == Lower(result) = "yes" \/ Lower(result) = "y"

\* DRCCheck.prompt_continue, on the line the operator typed
prompt_continue_any(result) == TRUE
prompt_continue(result) == Lower(result) = "yes" \/ Lower(result) = "y"

DrcInit ==
    drc \in [pcd : {"idle"}, decks : SUBSET (1..Len(DeckFiles)), drc_file_path : {""},
             techname : {""}, total_drc_errors : {0}, view_answer : {""},
             continue_answer : {""}, asked : {FALSE}, opened : {0}, ret : {"none"},
             exc : {""}, calls : {0}, returncode : {0}]

DrcIdle ==
    drc = [pcd |-> "idle", decks |-> {}, drc_file_path |-> "", techname |-> "",
           total_drc_errors |-> 0, view_answer |-> "", continue_answer |-> "",
           asked |-> FALSE, opened |-> 0, ret |-> "none", exc |-> "", calls |-> 0,
     returncode |-> 0]

\* The exit status of the KLayout subprocess.
ReturnCodes == {0, 1}

\* run_drc lines 152-185 on the DRCCheck d, up to the input() of prompt_drc_check.
\* returncode is the exit status of the DRC subprocess, which subprocess.run leaves
\* unchecked; results is the number of items in the results file that is then at
\* the expected path (written by this run or an earlier one), -1 if there is none
\* or it cannot be parsed.
run_drc(d, techname, gds_exists, returncode, results) ==
    LET d0 == [d EXCEPT !.calls = @ + 1, !.techname = techname, !.ret = "none",
                        !.asked = FALSE, !.view_answer = "", !.continue_answer = "",
                        !.returncode = 0, !.exc = ""]
        path == IF d.drc_file_path = ""
                THEN walk(techname, d.decks, 1, d.drc_file_path)
                ELSE d.drc_file_path
        d1 == [d0 EXCEPT !.drc_file_path = path]
    IN  IF ~gds_exists THEN [d0 EXCEPT !.pcd = "returned", !.ret = "False"]
        ELSE IF path = "" THEN [d1 EXCEPT !.pcd = "returned", !.ret = "False"]
        ELSE IF results < 0
        THEN [d1 EXCEPT !.pcd = "raised", !.exc = "ParseError", !.returncode = returncode]
        ELSE [d1 EXCEPT !.pcd = "prompt_view", !.total_drc_errors = results,
                        !.returncode = returncode]

\* A caller calls run_drc on the DRCCheck object.
RunDrc ==
    /\ drc.pcd \in {"idle", "returned"} /\ drc.calls < MaxDrcCalls
    /\ \E techname \in Techs, gds_exists \in BOOLEAN, returncode \in ReturnCodes,
          results \in (0 - 1)..MaxDrcErrors :
          drc' = run_drc(drc, techname, gds_exists, returncode, results)
    /\ UNCHANGED <<optVars, cml, sup, extVars>>

\* lines 185-199: prompt_drc_check returns, the viewer opens on yes, and
\* prompt_continue asks.
AnswerView ==
    /\ drc.pcd = "prompt_view"
    /\ \E result \in Answers :
          drc' = [drc EXCEPT !.view_answer = result,
                             !.opened = IF prompt_drc_check(result) THEN @ + 1 ELSE @,
                             !.asked = TRUE,
                             !.pcd = "prompt_continue"]
    /\ UNCHANGED <<optVars, cml, sup, extVars>>

\* lines 199-205: run_drc returns what prompt_continue returns.
AnswerContinue ==
    /\ drc.pcd = "prompt_continue"
    /\ \E result \in Answers :
          drc' = [drc EXCEPT !.continue_answer = result,
                             !.ret = IF prompt_continue(result) THEN "True" ELSE "False",
                             !.pcd = "returned"]
    /\ UNCHANGED <<optVars, cml, sup, extVars>>

DrcNext == RunDrc \/ AnswerView \/ AnswerContinue

\* --------------------------------------------------------- CMLCompilerHelper
MaxCmlCalls == 3     \* generate_cml calls on one compilation folder
MaxElements == 1     \* most entries of the element_list of the library's xml

\* The commands cml_compiler supports (line 216).
SupportedCommands == {"template", "library", "install", "test", "all", "runtests", "support"}

\* CMLCompilerHelper.cml_compiler(cmd, directory) on a helper with publisher_key;
\* template_exists: directory holds a lumfoundry_template folder; ok: cml-compiler
\* exits with 0.  The result: the exception raised ("" if it returns), the lines
\* printed, the subprocesses run and whether the template folder was removed.
cml_compiler_any(cmd, publisher_key, template_exists, ok) ==
    [exc |-> IF ok THEN "" ELSE "CalledProcessError",
     stdout |-> <<"Running CML Compiler...">>,
     subprocess |-> << <<"cml-compiler", cmd>> >>,
     rmtree |-> FALSE]
cml_compiler(cmd, publisher_key, template_exists, ok) ==
    IF cmd \in SupportedCommands
    THEN [exc |-> IF ok THEN "" ELSE "CalledProcessError",
          stdout |-> <<"Running CML Compiler...">>
                     \o (IF ok THEN <<"result.stdout">> ELSE <<>>),
          subprocess |-> IF publisher_key # ""
                         THEN << <<"cml-compiler", cmd, "--publisher-key", publisher_key>> >>
                         ELSE << <<"cml-compiler", cmd>> >>,
          rmtree |-> cmd = "template" /\ template_exists]
    ELSE [exc |-> "", stdout |-> <<"Unsupported command... Exiting...">>,
          subprocess |-> <<>>, rmtree |-> FALSE]

\* The publisher key of a helper: "" if INTERCONNECT offers none.
PublisherKeys == {"", "key"}

\* The commands a caller may pass.
Commands == SupportedCommands \cup {"bogus", "ALL", ""}

NoResult == [exc |-> "", stdout |-> <<>>, subprocess |-> <<>>, rmtree |-> FALSE]

CcIdle ==
    cc = [pcx |-> "idle", cmd |-> "", publisher_key |-> "", template_exists |-> FALSE,
          ok |-> TRUE, result |-> NoResult]

\* A caller is about to call cml_compiler(cmd, directory).
CcInit ==
    cc \in [pcx : {"ready"}, cmd : Commands, publisher_key : PublisherKeys,
            template_exists : BOOLEAN, ok : BOOLEAN, result : {NoResult}]

\* The call
CallCmlCompiler ==
    /\ cc.pcx = "ready"
    /\ LET r == cml_compiler(cc.cmd, cc.publisher_key, cc.template_exists, cc.ok)
       IN  cc' = [cc EXCEPT !.result = r,
                           !.pcx = IF r.exc = "" THEN "returned" ELSE "raised"]
    /\ UNCHANGED <<optVars, drc, cml, sup, script, wg, ses, tg, call>>

\* ------------------------------ sessions: Simulation and CMLCompilerHelper
MaxSims == 2

MaxKeyCalls == 2

\* No Simulation and no CMLCompilerHelper has been constructed.
SesIdle ==
    ses = [sims |-> <<>>, helper |-> "none", intc |-> "none", intc_opens |-> 0,
           publisher_key |-> "", exc |-> ""]

\* Simulation.__init__: launches the CAD and keeps the handle in self.fdtd.
SimulationInit ==
    /\ script.pcm = "start" /\ wg.pcw = "idle"
    /\ Len(ses.sims) < MaxSims
    /\ ses' = [ses EXCEPT !.sims = Append(@, [fdtd |-> "open", opens |-> 1])]
    /\ UNCHANGED <<optVars, drc, cml, sup, script, wg, cc, tg, call>>

\* Simulation.__del__: self.fdtd.close()
SimulationDel ==
    /\ \E i \in 1..Len(ses.sims) :
          /\ ses.sims[i].fdtd = "open"
          /\ ses' = [ses EXCEPT !.sims[i].fdtd = "closed"]
    /\ UNCHANGED <<optVars, drc, cml, sup, script, wg, cc, tg, call>>

\* CMLCompilerHelper.get_publisher_key, line 291: with lumapi.INTERCONNECT(hide=True).
\* The first call is made by __init__ (line 52).
GetPublisherKeyEnter ==
    /\ script.pcm = "start" /\ wg.pcw = "idle"
    /\ ses.helper \in {"none", "built"} /\ ses.intc_opens < MaxKeyCalls
    /\ ses' = [ses EXCEPT !.helper = IF @ = "none" THEN "init" ELSE "call",
                          !.intc = "open", !.intc_opens = @ + 1]
    /\ UNCHANGED <<optVars, drc, cml, sup, script, wg, cc, tg, call>>

\* lines 292-301: the key is returned, or "" if getdesignkitkey is not supported, or
\* the choice typed is not a number of the list; the with statement closes the session.
GetPublisherKeyLeave ==
    /\ ses.helper \in {"init", "call"}
    /\ \E publisher_key \in PublisherKeys, exc \in {"", "ValueError", "IndexError"} :
          ses' = [ses EXCEPT !.intc = "closed",
                     !.publisher_key = IF exc = "" THEN publisher_key ELSE @,
                     !.exc = exc,
                     !.helper = IF exc = "" \/ ses.helper = "call" THEN "built"
                                ELSE "raised"]
    /\ UNCHANGED <<optVars, drc, cml, sup, script, wg, cc, tg, call>>

\* ------------------------------------------------------------------ techgen
\* Python values of the technology dictionary and of a parsed YAML document: a
\* scalar (str, int, float or bool, by its str()), None, or a dict, whose items
\* are kept in insertion order.
Scalar(v) == [t |-> "scalar", v |-> v]

NoneValue == [t |-> "none"]

Dict(items) == [t |-> "dict", items |-> items]

HasKey(d, k) == \E i \in 1..Len(d.items) : d.items[i][1] = k

GetKey(d, k) == d.items[CHOOSE i \in 1..Len(d.items) : d.items[i][1] = k][2]

SetKey(d, k, v) ==
    Dict([i \in 1..Len(d.items) |-> IF d.items[i][1] = k THEN <<k, v>> ELSE d.items[i]])

\* Technology.__init__: the default technology params (a part of them)
DefaultTechnology ==
    Dict(<< <<"technology",
              Dict(<< <<"add-other-layers", Scalar("True")>>,
                      <<"base-path", NoneValue>>,
                      <<"name", Scalar("")>>,
                      <<"writer-options",
                        Dict(<< <<"gds2", Dict(<< <<"libname", Scalar("")>> >>)>> >>)>> >>)>> >>)

\* Technology.update_technology_params; UpdateItems is the loop over
\* params_value.items() of lines 359-361.
RECURSIVE update_technology_params(_, _, _)
RECURSIVE UpdateItems(_, _, _)
update_technology_params_null(tech_dict, params_key, params_value) ==
    IF ~HasKey(tech_dict, params_key) THEN tech_dict
    ELSE IF params_value.t \in {"scalar", "none"}
    THEN SetKey(tech_dict, params_key, params_value)
    ELSE SetKey(tech_dict, params_key,
                UpdateItems(GetKey(tech_dict, params_key), params_value.items, 1))
update_technology_params(tech_dict, params_key, params_value) ==
    IF ~HasKey(tech_dict, params_key) THEN tech_dict
    ELSE IF params_value.t = "scalar" THEN SetKey(tech_dict, params_key, params_value)
    ELSE IF params_value.t = "dict"
    THEN SetKey(tech_dict, params_key,
                UpdateItems(GetKey(tech_dict, params_key), params_value.items, 1))
    ELSE tech_dict

UpdateItems(tech_dict, items, i) ==
    IF i > Len(items) THEN tech_dict
    ELSE UpdateItems(update_technology_params(tech_dict, items[i][1], items[i][2]),
                     items, i + 1)

\* The Process YAML of a call.  kind: "" (no path given), "missing" (the file does
\* not exist), "parse_error" (yaml.load raises), "ok".
YamlFailures == {"missing", "parse_error"}

\* The 'technology' sections of the readable YAML files; NoneValue: no such section.
TechYamls ==
    { NoneValue,
      Dict(<< <<"name", Scalar("EBeam")>> >>),
      Dict(<< <<"name", Scalar("GSiP")>>, <<"add-other-layers", Scalar("False")>> >>),
      Dict(<< <<"name", NoneValue>>, <<"base-path", Scalar("")>> >>),
      Dict(<< <<"dbu", Scalar("0.001")>>,
              <<"writer-options",
                Dict(<< <<"gds2", Dict(<< <<"libname", Scalar("EBeam")>> >>)>> >>)>> >>) }

TechInputs ==
    {[kind |-> k, technology |-> NoneValue] : k \in {""} \cup YamlFailures}
    \cup {[kind |-> "ok", technology |-> y] : y \in TechYamls}

\* Technology.get_technology_params: the technology dict after the call
get_technology_params(technology, input) ==
    IF input.kind \in YamlFailures THEN technology
    ELSE IF input.technology.t = "dict" /\ Len(input.technology.items) > 0
    THEN update_technology_params(technology, "technology", input.technology)
    ELSE technology

\* str(element), lowered for a bool; an element without text for None
ElementText(element) ==
    IF element.t = "none" THEN ""
    ELSE IF element.v = "True" THEN "true"
    ELSE IF element.v = "False" THEN "false"
    ELSE element.v

\* Technology.create_sub_element and LayerStack.create_sub_element: the elements
\* added to root for element under the name tag.
RECURSIVE create_sub_element(_, _)
RECURSIVE SubElements(_, _)
create_sub_element(tag, element) ==
    IF element.t = "dict"
    THEN [tag |-> tag, text |-> "", children |-> SubElements(element.items, 1)]
    ELSE [tag |-> tag, text |-> ElementText(element), children |-> <<>>]

SubElements(items, i) ==
    IF i > Len(items) THEN <<>>
    ELSE <<create_sub_element(items[i][1], items[i][2])>> \o SubElements(items, i + 1)

\* The root element and what create_sub_element(root, None, ...) puts under it (an
\* element of tag None is written as its children alone).
XmlOf(d) ==
    [tag |-> d.items[1][1], text |-> "",
     children |-> create_sub_element("", d.items[1][2]).children]

NoXml == [tag |-> "", text |-> "", children |-> <<>>]

\* The 'layers' of the readable YAML files: name, fill-color of its
\* layer-properties ("absent": the layer has none), include-layer.
Layer(name, fill, include) == [name |-> name, fill |-> fill, include |-> include]

LayerYamls ==
    { <<>>,
      <<Layer("Si", "#ff0000", TRUE)>>,
      <<Layer("Si", "absent", TRUE), Layer("M1", "#0000ff", TRUE)>>,
      <<Layer("Si", "#ff0000", FALSE), Layer("M1", "", TRUE)>> }

LayerInputs ==
    {[kind |-> k, layers |-> <<>>] : k \in YamlFailures}
    \cup {[kind |-> "ok", layers |-> y] : y \in LayerYamls}

\* LayerStack.default_layer_properties['fill-color']
DefaultFillColor == "#000000"

\* LayerStack.get_layer_formatting_params, lines 177-271, for layers without groups:
\* the members of the list 'properties' it stores in self.layer_properties, each
\* under the tag that create_sub_element gives the members of a list.
RECURSIVE LayerDicts(_, _)
LayerDicts(layers, i) ==
    IF i > Len(layers) THEN <<>>
    ELSE IF layers[i].fill # "absent" /\ layers[i].include
    THEN << <<"properties",
              Dict(<< <<"fill-color", Scalar(layers[i].fill)>>,
                      <<"name", Scalar(layers[i].name)>> >>)>> >>
         \o LayerDicts(layers, i + 1)
    ELSE LayerDicts(layers, i + 1)

\* lines 152-165: a file that is missing or does not parse is reported and the
\* object left as it was.
get_layer_formatting_params(layer_properties, input) ==
    IF input.kind \in YamlFailures THEN layer_properties
    ELSE Dict(<< <<"layer-properties", Dict(LayerDicts(input.layers, 1))>> >>)

MaxTechgenCalls == 3

NoCall == [op |-> "", kind |-> "", logged |-> FALSE, wrote |-> FALSE, exc |-> ""]

\* A Technology() with its defaults; no LayerStack and no DRC object yet.
TgIdle ==
    tg = [technology |-> DefaultTechnology, lyt_file |-> NoXml, merged |-> <<>>,
          layer_stack |-> "none", layer_properties |-> Dict(<<>>), lyp_file |-> NoXml,
          layers |-> <<>>,
          DRC |-> "none", lydrc_file |-> "", last |-> NoCall, calls |-> 0]

Called(op, kind, wrote, exc) ==
    [op |-> op, kind |-> kind, logged |-> kind \in YamlFailures, wrote |-> wrote,
     exc |-> exc]

\* Technology.create_lyt_file(process_yaml_file_path)
CreateLytFile ==
    /\ tg.calls < MaxTechgenCalls
    /\ \E input \in TechInputs :
          LET technology == IF input.kind # ""
                            THEN get_technology_params(tg.technology, input)
                            ELSE tg.technology
          IN  tg' = [tg EXCEPT !.technology = technology,
                               !.lyt_file = XmlOf(technology),
                               !.merged = IF input.kind = "ok"
                                          THEN Append(@, input.technology) ELSE @,
                               !.last = Called("create_lyt_file", input.kind, TRUE, ""),
                               !.calls = @ + 1]
    /\ UNCHANGED <<optVars, drc, cml, sup, script, wg, cc, ses, call>>

\* LayerStack(process_yaml_file_path): layer_properties = {}, then
\* get_layer_formatting_params
LayerStackInit ==
    /\ tg.calls < MaxTechgenCalls /\ tg.layer_stack = "none"
    /\ \E input \in LayerInputs :
          tg' = [tg EXCEPT !.layer_stack = input.kind,
                           !.layer_properties =
                               get_layer_formatting_params(Dict(<<>>), input),
                           !.layers = IF input.kind = "ok" THEN input.layers ELSE @,
                           !.last = Called("LayerStack", input.kind, FALSE, ""),
                           !.calls = @ + 1]
    /\ UNCHANGED <<optVars, drc, cml, sup, script, wg, cc, ses, call>>

\* A later call of get_layer_formatting_params on the same object
GetLayerFormattingParams ==
    /\ tg.calls < MaxTechgenCalls /\ tg.layer_stack # "none"
    /\ \E input \in LayerInputs :
          tg' = [tg EXCEPT !.layer_stack = input.kind,
                           !.layer_properties =
                               get_layer_formatting_params(tg.layer_properties, input),
                           !.layers = IF input.kind = "ok" THEN input.layers ELSE @,
                           !.last = Called("get_layer_formatting_params", input.kind,
                                           FALSE, ""),
                           !.calls = @ + 1]
    /\ UNCHANGED <<optVars, drc, cml, sup, script, wg, cc, ses, call>>

\* LayerStack.create_lyp_file: list(self.layer_properties.keys())[0] raises
\* IndexError on the empty dict of the constructor.
CreateLypFile ==
    /\ tg.calls < MaxTechgenCalls /\ tg.layer_stack # "none"
    /\ tg' = IF Len(tg.layer_properties.items) = 0
             THEN [tg EXCEPT !.last = Called("create_lyp_file", tg.layer_stack, FALSE,
                                             "IndexError"),
                             !.calls = @ + 1]
             ELSE [tg EXCEPT !.lyp_file = XmlOf(tg.layer_properties),
                             !.last = Called("create_lyp_file", tg.layer_stack, TRUE, ""),
                             !.calls = @ + 1]
    /\ UNCHANGED <<optVars, drc, cml, sup, script, wg, cc, ses, call>>

\* DRC(process_yaml_file_path): get_DRC_params sets the layer attributes unless the
\* file is missing or does not parse.
DRCInit ==
    /\ tg.calls < MaxTechgenCalls /\ tg.DRC = "none"
    /\ \E kind \in {"ok"} \cup YamlFailures :
          tg' = [tg EXCEPT !.DRC = kind,
                           !.last = Called("DRC", kind, FALSE, ""),
                           !.calls = @ + 1]
    /\ UNCHANGED <<optVars, drc, cml, sup, script, wg, cc, ses, call>>

\* DRC.create_lydrc_file: reads self.layer_setups, which get_DRC_params has set or not.
CreateLydrcFile ==
    /\ tg.calls < MaxTechgenCalls /\ tg.DRC # "none"
    /\ tg' = IF tg.DRC = "ok"
             THEN [tg EXCEPT !.lydrc_file = "lydrc",
                             !.last = Called("create_lydrc_file", tg.DRC, TRUE, ""),
                             !.calls = @ + 1]
             ELSE [tg EXCEPT !.last = Called("create_lydrc_file", tg.DRC, FALSE,
                                             "AttributeError"),
                             !.calls = @ + 1]
    /\ UNCHANGED <<optVars, drc, cml, sup, script, wg, cc, ses, call>>

TechgenNext ==
    \/ CreateLytFile \/ LayerStackInit \/ GetLayerFormattingParams \/ CreateLypFile
    \/ DRCInit \/ CreateLydrcFile

\* --------------------------- LayerStack.get_layer_formatting_params, with groups
\* Python list operations, positions counted from 0.
InList(list, x) == \E i \in 1..Len(list) : list[i] = x

\* list.index(x), for x in list
ListIndex(list, x) ==
    (CHOOSE i \in 1..Len(list) : list[i] = x /\ \A j \in 1..(i - 1) : list[j] # x) - 1

\* list.remove(x), for x in list
ListRemove(list, x) ==
    LET k == ListIndex(list, x) + 1
    IN  [i \in 1..(Len(list) - 1) |-> IF i < k THEN list[i] ELSE list[i + 1]]

\* list.insert(index, x)
ListInsert(list, index, x) ==
    LET at == IF index < 0 THEN Maximum(0, Len(list) + index)
              ELSE Minimum(Len(list), index)
    IN  [i \in 1..(Len(list) + 1) |->
            IF i <= at THEN list[i] ELSE IF i = at + 1 THEN x ELSE list[i - 1]]

\* The layers of the Process YAML, in its order; each is included or not
\* (include-layer), and one group may list members (group-members).
LayerNames == <<"Si", "SiN", "M1">>

GroupName == "Waveguides"

MemberLists ==
    {m \in UNION {[1..n -> 1..Len(LayerNames)] : n \in 1..Len(LayerNames)} :
        \A i, j \in DOMAIN m : i # j => m[i] # m[j]}

\* lines 177-213: the names of the included layers, in the order of the YAML
RECURSIVE layer_sequence_from(_, _)
layer_sequence_from(include, i) ==
    IF i > Len(LayerNames) THEN <<>>
    ELSE (IF include[i] THEN <<LayerNames[i]>> ELSE <<>>)
         \o layer_sequence_from(include, i + 1)

\* lines 236-244: for member in members_list, where members_list is the list
\* group_sequences[group] that the except branch removes from; i is the position of
\* the list iterator.
RECURSIVE for_member(_, _, _, _)
for_member(layer_sequence, members_list, first_occr_ind, i) ==
    IF i >= Len(members_list)
    THEN [layer_sequence |-> layer_sequence, members_list |-> members_list,
          first_occr_ind |-> first_occr_ind]
    ELSE LET member == members_list[i + 1]
         IN  IF InList(layer_sequence, member)
             THEN LET member_ind == ListIndex(layer_sequence, member)
                  IN  for_member(ListRemove(layer_sequence, member), members_list,
                                 IF member_ind < first_occr_ind
                                 THEN member_ind ELSE first_occr_ind,
                                 i + 1)
             ELSE for_member(layer_sequence, ListRemove(members_list, member),
                             first_occr_ind, i + 1)

\* lines 227-247: the group is put where its first member was.
refactor_group(layer_sequence, group_members) ==
    LET found == InList(layer_sequence, group_members[1])
        first == IF found THEN ListIndex(layer_sequence, group_members[1])
                 ELSE Len(layer_sequence) - 1
        members == IF found THEN group_members
                   ELSE ListRemove(group_members, group_members[1])
        r == for_member(layer_sequence, members, first, 0)
    IN  [layer_sequence |-> ListInsert(r.layer_sequence, r.first_occr_ind, GroupName),
         members_list |-> r.members_list]

\* lines 249-271: self.layer_properties['layer-properties']['properties'];
\* layer_properties[member] raises KeyError for a member that is not an included layer.
properties_of(layer_sequence, members_list, included) ==
    IF \E k \in 1..Len(members_list) : ~InList(included, members_list[k])
    THEN [exc |-> "KeyError", properties |-> <<>>]
    ELSE [exc |-> "",
          properties |->
              [k \in 1..Len(layer_sequence) |->
                  IF layer_sequence[k] = GroupName
                  THEN [name |-> GroupName, members |-> members_list]
                  ELSE [name |-> layer_sequence[k], members |-> <<>>]]]

\* A caller is about to call get_layer_formatting_params on a YAML with these layers.
LayersInit ==
    \E include \in [1..Len(LayerNames) -> BOOLEAN], group \in BOOLEAN, m \in MemberLists :
        call = [fn |-> "get_layer_formatting_params", pc |-> "ready",
                include |-> include, group |-> group,
                group_members |-> IF group THEN [i \in DOMAIN m |-> LayerNames[m[i]]]
                                  ELSE <<>>,
                properties |-> <<>>, exc |-> ""]

\* The call
CallGetLayerFormattingParams ==
    /\ call.fn = "get_layer_formatting_params" /\ call.pc = "ready"
    /\ LET included == layer_sequence_from(call.include, 1)
           g == IF call.group THEN refactor_group(included, call.group_members)
                ELSE [layer_sequence |-> included, members_list |-> <<>>]
           r == properties_of(g.layer_sequence, g.members_list, included)
       IN  call' = [call EXCEPT !.pc = IF r.exc = "" THEN "returned" ELSE "raised",
                                !.properties = r.properties, !.exc = r.exc]
    /\ UNCHANGED <<optVars, drc, cml, sup, script, wg, cc, ses, tg>>

\* -------------------------------------- layer sources: "1/0@1" and back
\* A str is a sequence of characters.
DigitChars == <<"0", "1", "2", "3", "4", "5", "6", "7", "8", "9">>

\* str.split(sep): the parts between the separators
RECURSIVE StrSplit(_, _)
StrSplit(str, sep) ==
    IF ~InList(str, sep) THEN <<str>>
    ELSE LET k == ListIndex(str, sep) + 1
         IN  <<SubSeq(str, 1, k - 1)>> \o StrSplit(SubSeq(str, k + 1, Len(str)), sep)

\* str.replace(old, new) for single characters
StrReplace(str, old, new) == [i \in 1..Len(str) |-> IF str[i] = old THEN new ELSE str[i]]

\* int(str) for a str of digits
RECURSIVE IntOf(_)
IntOf(str) ==
    IF Len(str) = 0 THEN 0
    ELSE 10 * IntOf(SubSeq(str, 1, Len(str) - 1))
         + ListIndex(DigitChars, str[Len(str)])

\* str(n) for n >= 0
RECURSIVE StrOf(_)
StrOf(n) == IF n < 10 THEN <<DigitChars[n + 1]>> ELSE StrOf(n \div 10) \o <<DigitChars[(n % 10) + 1]>>

\* DRC.get_DRC_params, lines 144-148: the [layer_number, layer_datatype] of a source
layer_setup(source) ==
    LET layer_source == StrSplit(source, "@")
        layer_number_datatype == layer_source[1]
    IN  <<IntOf(StrSplit(layer_number_datatype, "/")[1]),
          IntOf(StrSplit(layer_number_datatype, "/")[2])>>

\* DRC.create_drc_dict, lines 615-616: "{}/{}".format(source[0], source[1])
drc_dict_source_swapped(source) == StrOf(source[2]) \o <<"/">> \o StrOf(source[1])
drc_dict_source(source) == StrOf(source[1]) \o <<"/">> \o StrOf(source[2])

\* lumgen.get_process_layer_sources, line 314: source.split('@')[0].replace('/', ':')
process_layer_source(source) == StrReplace(StrSplit(source, "@")[1], "/", ":")

MaxLayerNumber == 12

MaxDatatype == 3

\* The source strings of a valid Process YAML: layer/datatype, with or without a
\* leading zero and with or without the @ part.
LayerSources ==
    {[number |-> n, datatype |-> d,
      source |-> z \o StrOf(n) \o <<"/">> \o StrOf(d) \o a] :
        n \in 0..MaxLayerNumber, d \in 0..MaxDatatype,
        z \in {<<>>, <<"0">>}, a \in {<<>>, <<"@", "1">>}}

\* A caller is about to construct a DRC object on a YAML with this layer source.
SourceInit ==
    \E l \in LayerSources :
        call = [fn |-> "layer_source", pc |-> "ready", number |-> l.number,
                datatype |-> l.datatype, source |-> l.source,
                layer_setups |-> <<>>, drc_dict_source |-> <<>>,
                process_layer_source |-> <<>>]

\* DRC.get_DRC_params and lumgen.get_process_layer_sources read the source.
CallGetDRCParams ==
    /\ call.fn = "layer_source" /\ call.pc = "ready"
    /\ call' = [call EXCEPT !.pc = "parsed",
                            !.layer_setups = layer_setup(call.source),
                            !.process_layer_source = process_layer_source(call.source)]
    /\ UNCHANGED <<optVars, drc, cml, sup, script, wg, cc, ses, tg>>

\* DRC.create_drc_dict writes the source of the DRC YAML.
CallCreateDrcDict ==
    /\ call.fn = "layer_source" /\ call.pc = "parsed"
    /\ call' = [call EXCEPT !.pc = "dumped",
                            !.drc_dict_source = drc_dict_source(call.layer_setups)]
    /\ UNCHANGED <<optVars, drc, cml, sup, script, wg, cc, ses, tg>>

SourceNext == CallGetDRCParams \/ CallCreateDrcDict

\* ------------------------------------------------ common_methods.prettify
\* A document is a sequence of symbols: the characters of its text and its tags.
Char(c) == [t |-> "char", v |-> c]

Chars(str) == [i \in 1..Len(str) |-> Char(str[i])]

\* The nodes of a DOM tree: elements (without attributes) and text nodes.
Element(tag, childNodes) == [kind |-> "element", tag |-> tag, childNodes |-> childNodes]

TextNode(data) == [kind |-> "text", data |-> data]

\* toprettyxml(indent="  "): addindent and the default newl
AddIndent == <<" ", " ">>

NewLine == <<"\n">>

\* xml.dom.minidom: Element.writexml and Text.writexml, as toprettyxml calls them
RECURSIVE writexml(_, _)
RECURSIVE WriteChildren(_, _, _)
writexml(node, indent) ==
    IF node.kind = "text" THEN Chars(indent \o node.data \o NewLine)
    ELSE IF Len(node.childNodes) = 0
    THEN Chars(indent) \o <<[t |-> "empty", v |-> node.tag]>> \o Chars(NewLine)
    ELSE IF Len(node.childNodes) = 1 /\ node.childNodes[1].kind = "text"
    THEN Chars(indent) \o <<[t |-> "open", v |-> node.tag]>>
         \o Chars(node.childNodes[1].data)
         \o <<[t |-> "close", v |-> node.tag]>> \o Chars(NewLine)
    ELSE Chars(indent) \o <<[t |-> "open", v |-> node.tag]>> \o Chars(NewLine)
         \o WriteChildren(node.childNodes, indent \o AddIndent, 1)
         \o Chars(indent) \o <<[t |-> "close", v |-> node.tag]>> \o Chars(NewLine)

WriteChildren(childNodes, indent, i) ==
    IF i > Len(childNodes) THEN <<>>
    ELSE writexml(childNodes[i], indent) \o WriteChildren(childNodes, indent, i + 1)

\* prettify(root): ET.tostring, minidom.parseString and toprettyxml, on the DOM tree
\* of root; the XML declaration comes first.
prettify(root) == <<[t |-> "decl", v |-> "xml"]>> \o Chars(NewLine) \o writexml(root, <<>>)

\* The end of the run of characters that starts at i
RECURSIVE EndOfText(_, _)
EndOfText(doc, i) ==
    IF i > Len(doc) \/ doc[i].t # "char" THEN i ELSE EndOfText(doc, i + 1)

\* ET.fromstring of a document and minidom.parseString of its ET.tostring: the nodes
\* from position i up to the closing tag of their parent; white space between tags
\* stays as text.
RECURSIVE ParseNodes(_, _)
ParseNodes(doc, i) ==
    IF i > Len(doc) \/ doc[i].t = "close" THEN [nodes |-> <<>>, next |-> i]
    ELSE IF doc[i].t = "char"
    THEN LET j == EndOfText(doc, i)
             rest == ParseNodes(doc, j)
         IN  [nodes |-> <<TextNode([k \in 1..(j - i) |-> doc[i + k - 1].v])>> \o rest.nodes,
              next |-> rest.next]
    ELSE IF doc[i].t = "empty"
    THEN LET rest == ParseNodes(doc, i + 1)
         IN  [nodes |-> <<Element(doc[i].v, <<>>)>> \o rest.nodes, next |-> rest.next]
    ELSE LET inner == ParseNodes(doc, i + 1)
             rest == ParseNodes(doc, inner.next + 1)
         IN  [nodes |-> <<Element(doc[i].v, inner.nodes)>> \o rest.nodes,
              next |-> rest.next]

\* The root element of a document: what precedes and follows it is no part of it.
RootOf(doc) ==
    LET i == CHOOSE k \in 1..Len(doc) :
                 /\ doc[k].t \in {"open", "empty"}
                 /\ \A j \in 1..(k - 1) : doc[j].t \notin {"open", "empty"}
    IN  IF doc[i].t = "empty" THEN Element(doc[i].v, <<>>)
        ELSE Element(doc[i].v, ParseNodes(doc, i + 1).nodes)

\* The trees the program builds with ET.Element and ET.SubElement: elements with a
\* text or with sub-elements.
MaxSubElements == 3

SubTrees ==
    { Element("name", <<>>),
      Element("name", <<TextNode(<<"w", "g">>)>>),
      Element("component", <<Element("layer", <<>>)>>),
      Element("component", <<Element("layer", <<TextNode(<<"S", "i">>)>>)>>) }

Trees ==
    {Element("waveguides", <<TextNode(<<"w", "g">>)>>)}
    \cup {Element("waveguides", c) :
             c \in UNION {[1..n -> SubTrees] : n \in 0..MaxSubElements}}

\* A caller is about to call prettify(root).
PrettifyInit ==
    \E root \in Trees :
        call = [fn |-> "prettify", pc |-> "ready", root |-> root,
                pretty |-> <<>>, again |-> <<>>]

\* prettify(root)
CallPrettify ==
    /\ call.fn = "prettify" /\ call.pc = "ready"
    /\ call' = [call EXCEPT !.pc = "pretty", !.pretty = prettify(call.root)]
    /\ UNCHANGED <<optVars, drc, cml, sup, script, wg, cc, ses, tg>>

\* prettify(ET.fromstring(pretty)): the pretty document goes through prettify again.
CallPrettifyAgain ==
    /\ call.fn = "prettify" /\ call.pc = "pretty"
    /\ call' = [call EXCEPT !.pc = "again", !.again = prettify(RootOf(call.pretty))]
    /\ UNCHANGED <<optVars, drc, cml, sup, script, wg, cc, ses, tg>>

PrettifyNext == CallPrettify \/ CallPrettifyAgain

\* ------------------------------------ WaveguideStripGeometry.sweep_radius
\* A Python dict as the sequence of its items in insertion order: d[key] = val
\* replaces the value of a key that is there and appends a new key otherwise.
DictKeys(d) == {d[i].key : i \in 1..Len(d)}

DictSetItem(d, key, val) ==
    IF key \in DictKeys(d)
    THEN [i \in 1..Len(d) |-> IF d[i].key = key THEN [key |-> key, val |-> val] ELSE d[i]]
    ELSE Append(d, [key |-> key, val |-> val])

\* "Waveguide_r={}nm.gds".format(int(r*1000)), in self.gds_dir; radii are whole
\* numbers of um.
radius_gds_path(r) == <<"Waveguide_r=">> \o StrOf(r * 1000) \o <<"nm.gds">>

\* while r <= radius_range[1]
sweep_radius_exclusive(r, radius_range) == r < radius_range[2]
sweep_radius_continues(r, radius_range) == r <= radius_range[2]

\* The loop of sweep_radius from radius r on: one GDS file per radius.
RECURSIVE sweep_radius_from(_, _, _, _)
sweep_radius_from(radius_sweep_mapping, r, radius_range, resolution) ==
    IF sweep_radius_continues(r, radius_range)
    THEN sweep_radius_from(DictSetItem(radius_sweep_mapping, radius_gds_path(r), r),
                           r + resolution, radius_range, resolution)
    ELSE radius_sweep_mapping

sweep_radius(radius_range, resolution) ==
    sweep_radius_from(<<>>, radius_range[1], radius_range, resolution)

MaxRadius == 10

MaxResolution == 3

\* A caller is about to call sweep_radius(width, radius_range, resolution).
SweepInit ==
    \E lo \in 1..MaxRadius, hi \in 1..MaxRadius, resolution \in 1..MaxResolution :
        call = [fn |-> "sweep_radius", pc |-> "ready", radius_range |-> <<lo, hi>>,
                resolution |-> resolution, radius_sweep_mapping |-> <<>>]

\* sweep_radius(width, radius_range, resolution)
CallSweepRadius ==
    /\ call.fn = "sweep_radius" /\ call.pc = "ready"
    /\ call' = [call EXCEPT !.pc = "returned",
                            !.radius_sweep_mapping =
                                sweep_radius(call.radius_range, call.resolution)]
    /\ UNCHANGED <<optVars, drc, cml, sup, script, wg, cc, ses, tg>>

\* ------------------------------------------ DRCCheck.get_total_drc_errors
\* Element.iter(tag): the element itself and all elements below it that have the
\* tag, in document order.
RECURSIVE iter(_, _)
RECURSIVE IterChildren(_, _, _)
iter_children(node, tag) ==
    SelectSeq(node.childNodes, LAMBDA c : c.kind = "element" /\ c.tag = tag)
iter(node, tag) ==
    IF node.kind = "text" THEN <<>>
    ELSE (IF node.tag = tag THEN <<node>> ELSE <<>>) \o IterChildren(node.childNodes, tag, 1)

IterChildren(childNodes, tag, i) ==
    IF i > Len(childNodes) THEN <<>>
    ELSE iter(childNodes[i], tag) \o IterChildren(childNodes, tag, i + 1)

\* get_total_drc_errors(xml_file): ET.parse, getroot, len(list(root.iter('item')))
get_total_drc_errors(xml_file) == Len(iter(RootOf(xml_file), "item"))

MaxItems == 4

\* The items of a results file: bare, with their category, or with an item inside.
Items ==
    { Element("item", <<>>),
      Element("item", <<Element("category", <<TextNode(<<"W", "G">>)>>)>>),
      Element("item", <<Element("values", <<Element("item", <<>>)>>)>>) }

\* The .lyrdb files: a report database with its categories and its items, or a
\* document whose root is an item.
LyrdbFiles ==
    { prettify(Element("report-database",
                       <<Element("categories", <<Element("category", <<>>)>>),
                         Element("items", items)>>)) :
          items \in UNION {[1..n -> Items] : n \in 0..MaxItems} }
    \cup {prettify(Element("item", items)) : items \in [1..1 -> Items]}

\* A caller is about to call get_total_drc_errors(xml_file).
TotalInit ==
    \E xml_file \in LyrdbFiles :
        call = [fn |-> "get_total_drc_errors", pc |-> "ready", xml_file |-> xml_file,
                result |-> 0]

\* get_total_drc_errors(xml_file)
CallGetTotalDrcErrors ==
    /\ call.fn = "get_total_drc_errors" /\ call.pc = "ready"
    /\ call' = [call EXCEPT !.pc = "returned",
                            !.result = get_total_drc_errors(call.xml_file)]
    /\ UNCHANGED <<optVars, drc, cml, sup, script, wg, cc, ses, tg>>

\* ------------------------- WaveguideStripSimulation.loss_sweep_bend_radii
\* d.pop(key): the items without the one of the key
DictPop(d, key) == SelectSeq(d, LAMBDA item : item.key # key)

\* radius*self.scale_factor > self.boundary_size, both sides in um
larger_than_region(radius, boundary_size) == radius > boundary_size

\* for file, radius in radius_sweep_mapping.items(): ... radius_sweep_mapping.pop(file)
\* The iterator of a dict remembers the size of the dict (di_used) and the position
\* it is at; asked for the next item of a dict whose size has changed, it raises
\* RuntimeError.
RECURSIVE remove_larger(_, _, _, _)
remove_larger(radius_sweep_mapping, pos, di_used, boundary_size) ==
    IF Len(radius_sweep_mapping) # di_used
    THEN [error |-> "RuntimeError", radius_sweep_mapping |-> radius_sweep_mapping]
    ELSE IF pos > Len(radius_sweep_mapping)
    THEN [error |-> "none", radius_sweep_mapping |-> radius_sweep_mapping]
    ELSE IF larger_than_region(radius_sweep_mapping[pos].val, boundary_size)
    THEN remove_larger(DictPop(radius_sweep_mapping, radius_sweep_mapping[pos].key),
                       pos + 1, di_used, boundary_size)
    ELSE remove_larger(radius_sweep_mapping, pos + 1, di_used, boundary_size)

\* loss_sweep_bend_radii: the removal, then one FDTD simulation per remaining item;
\* an exception of the removal ends the call before any simulation.
loss_sweep_bend_radii(radius_sweep_mapping, boundary_size) ==
    LET removed == remove_larger(radius_sweep_mapping, 1, Len(radius_sweep_mapping),
                                 boundary_size)
    IN  [error |-> removed.error,
         radius_sweep_mapping |-> removed.radius_sweep_mapping,
         simulated |-> IF removed.error = "none"
                       THEN [i \in 1..Len(removed.radius_sweep_mapping) |->
                                 removed.radius_sweep_mapping[i].val]
                       ELSE <<>>]

\* A caller is about to pass the mapping of a radius sweep to loss_sweep_bend_radii;
\* the simulation region is boundary_size um wide.
LossInit ==
    \E lo \in 1..MaxRadius, hi \in 1..MaxRadius, resolution \in 1..MaxResolution,
       boundary_size \in 0..MaxRadius :
        call = [fn |-> "loss_sweep_bend_radii", pc |-> "ready",
                mapping |-> sweep_radius(<<lo, hi>>, resolution),
                boundary_size |-> boundary_size,
                radius_sweep_mapping |-> sweep_radius(<<lo, hi>>, resolution),
                error |-> "none", simulated |-> <<>>]

\* loss_sweep_bend_radii(radius_sweep_mapping, width, plot): it returns or raises.
CallLossSweepBendRadii ==
    /\ call.fn = "loss_sweep_bend_radii" /\ call.pc = "ready"
    /\ LET out == loss_sweep_bend_radii(call.radius_sweep_mapping, call.boundary_size)
       IN  call' = [call EXCEPT !.pc = IF out.error = "none" THEN "returned" ELSE "raised",
                                !.radius_sweep_mapping = out.radius_sweep_mapping,
                                !.error = out.error,
                                !.simulated = out.simulated]
    /\ UNCHANGED <<optVars, drc, cml, sup, script, wg, cc, ses, tg>>

\* No function is being called.
CallIdle == call = [fn |-> "none"]

ToolIdle == CcIdle /\ SesIdle /\ TgIdle /\ CallIdle

CmlIdle ==
    cml = [pcc |-> "idle", calls |-> 0, compiler |-> "none", renamed |-> FALSE,
           num_elements |-> 0 - 1, fallback |-> FALSE, source |-> "user_created",
           cd_failed |-> FALSE, installed |-> FALSE, exc |-> ""]

\* An exception leaves generate_cml.
CmlRaise(c, exc) == [c EXCEPT !.pcc = "raised", !.exc = exc]

\* generate_cml lines 83-89: the compilation directory must exist.
GenerateCml ==
    /\ cml.pcc \in {"idle", "done", "raised"} /\ cml.calls < MaxCmlCalls
    /\ \E dir_exists \in BOOLEAN :
          LET c0 == [cml EXCEPT !.calls = @ + 1, !.compiler = "none", !.renamed = FALSE,
                                !.num_elements = 0 - 1, !.fallback = FALSE,
                                !.cd_failed = FALSE, !.installed = FALSE, !.exc = ""]
          IN  cml' = IF dir_exists THEN [c0 EXCEPT !.pcc = "compile"]
                     ELSE CmlRaise(c0, "NotADirectoryError")
    /\ UNCHANGED <<optVars, drc, sup, extVars>>

\* line 92: self.cml_compiler("all", ...); its exception is caught by the bare except.
CompileAll ==
    /\ cml.pcc = "compile"
    /\ \E ok \in BOOLEAN, publisher_key \in PublisherKeys :
          cml' = IF cml_compiler("all", publisher_key, FALSE, ok).exc = ""
                 THEN [cml EXCEPT !.compiler = "ok", !.pcc = "rename"]
                 ELSE [cml EXCEPT !.compiler = "fail", !.pcc = "except"]
    /\ UNCHANGED <<optVars, drc, sup, extVars>>

\* lines 93-94: os.rename of the compiled .cml; its OSError is caught by the same except.
RenameCml ==
    /\ cml.pcc = "rename"
    /\ \E ok \in BOOLEAN :
          cml' = IF ok THEN [cml EXCEPT !.renamed = TRUE, !.pcc = "done"]
                 ELSE [cml EXCEPT !.pcc = "except"]
    /\ UNCHANGED <<optVars, drc, sup, extVars>>

\* lines 95-103 and 146-147: the except branch counts the elements of the xml;
\* n = -1: the xml cannot be read.
CountElements ==
    /\ cml.pcc = "except"
    /\ \E n \in (0 - 1)..MaxElements :
          cml' = IF n < 0 THEN CmlRaise(cml, "ParseError")
                 ELSE IF n = 0
                 THEN [cml EXCEPT !.num_elements = 0, !.fallback = TRUE, !.pcc = "intc"]
                 ELSE CmlRaise([cml EXCEPT !.num_elements = n], "Exception")
    /\ UNCHANGED <<optVars, drc, sup, extVars>>

\* lines 104-110: INTERCONNECT opens, source/user_created is renamed, loadcustom.
LoadUserModels ==
    /\ cml.pcc = "intc"
    /\ \E opened \in BOOLEAN, loaded \in BOOLEAN :
          cml' = IF ~opened THEN CmlRaise(cml, "LumApiError")
                 ELSE IF cml.source # "user_created" THEN CmlRaise(cml, "FileNotFoundError")
                 ELSE IF ~loaded THEN CmlRaise([cml EXCEPT !.source = "cml_name"], "LumApiError")
                 ELSE [cml EXCEPT !.source = "cml_name", !.pcc = "cd"]
    /\ UNCHANGED <<optVars, drc, sup, extVars>>

\* lines 111-117: INTC.cd; a failure is swallowed, and retried only after makedirs.
ChangeDirectory ==
    /\ cml.pcc = "cd"
    /\ \E cd_ok \in BOOLEAN, folder_exists \in BOOLEAN, retry_ok \in BOOLEAN :
          cml' = IF cd_ok THEN [cml EXCEPT !.pcc = "package"]
                 ELSE IF folder_exists THEN [cml EXCEPT !.cd_failed = TRUE, !.pcc = "package"]
                 ELSE IF retry_ok THEN [cml EXCEPT !.pcc = "package"]
                 ELSE CmlRaise(cml, "LumApiError")
    /\ UNCHANGED <<optVars, drc, sup, extVars>>

\* lines 119-126: packagedesignkit, the rename back, installdesignkit.
PackageAndInstall ==
    /\ cml.pcc = "package"
    /\ \E packaged \in BOOLEAN, installed \in BOOLEAN :
          cml' = IF ~packaged THEN CmlRaise(cml, "LumApiError")
                 ELSE IF ~installed
                 THEN CmlRaise([cml EXCEPT !.source = "user_created"], "LumApiError")
                 ELSE [cml EXCEPT !.source = "user_created", !.installed = TRUE,
                                  !.pcc = "done"]
    /\ UNCHANGED <<optVars, drc, sup, extVars>>

CmlNext ==
    \/ GenerateCml \/ CompileAll \/ RenameCml \/ CountElements
    \/ LoadUserModels \/ ChangeDirectory \/ PackageAndInstall

\* --------------------------------------------------------- SuperOptimization
NumOpts == 3         \* co-optimizations added to the SuperOptimization
MaxSuperIter == 2    \* iterations of the combined optimizer

Opts == 1..NumOpts

\* The optimizations in list order, as pool.map receives them.
OptList == [i \in Opts |-> i]

\* Which geometry object each optimization was constructed with: co-optimizations
\* may be given the same object (SuperOptimization.run, unique_geometries).
GeoMaps == {m \in [Opts -> Opts] : \A i \in Opts : m[i] <= i}

\* geo and geo_hist are the geometries' current_params and params_hist, by object.
SupStart ==
    [pcs |-> "constructed", num_threads |-> 0, phase |-> "", pending |-> <<>>,
     active |-> {}, iteration |-> 0, params |-> 0, concurrent |-> FALSE,
     geometry |-> [i \in Opts |-> i],
     geo |-> [g \in Opts |-> 0], geo_hist |-> [g \in Opts |-> <<>>],
     jobs |-> [i \in Opts |-> <<>>],
     redo |-> [i \in Opts |-> FALSE], fields |-> [i \in Opts |-> 0],
     grads |-> [i \in Opts |-> 0], full_fom_hist |-> 0, params_hist |-> <<>>,
     exc |-> ""]

SupIdle == sup = SupStart

\* concurrent: the optimizer's concurrent_adjoint_solves()
SupInit ==
    \E c \in BOOLEAN : \E m \in GeoMaps :
        sup = [SupStart EXCEPT !.concurrent = c, !.geometry = m]

\* SuperOptimization.run lines 303-313: num_threads (0: not given), then initialize,
\* which initializes the sub-optimizations one after the other.
SuperRun ==
    /\ sup.pcs = "constructed"
    /\ \E num_threads \in (0 - 1)..(NumOpts + 1) :
          LET n == IF num_threads # 0 THEN num_threads ELSE NumOpts
          IN  sup' = IF n < 1 THEN [sup EXCEPT !.pcs = "failed", !.exc = "UserWarning"]
                     ELSE [sup EXCEPT !.num_threads = n, !.pcs = "ready"]
    /\ UNCHANGED <<optVars, drc, cml, extVars>>

\* callable_fom lines 91-103: clearjobs, then pool.map(make_forward_solve, optimizations)
SuperCallFom ==
    /\ sup.pcs \in {"ready", "iterated"} /\ sup.iteration < MaxSuperIter
    /\ sup' = [sup EXCEPT !.pcs = "pool", !.phase = "make_forward",
                          !.params = sup.iteration + 1, !.pending = OptList,
                          !.jobs = [i \in Opts |-> <<>>]]
    /\ UNCHANGED <<optVars, drc, cml, extVars>>

\* An idle worker of ThreadPool(num_threads) takes the next item of the map.
WorkerTakesAny ==
    /\ sup.pcs = "pool" /\ sup.pending # <<>>
    /\ sup' = [sup EXCEPT !.active = @ \cup {Head(sup.pending)},
                          !.pending = Tail(@)]
    /\ UNCHANGED <<optVars, drc, cml, extVars>>
WorkerTakes ==
    /\ sup.pcs = "pool" /\ sup.pending # <<>>
    /\ Cardinality(sup.active) < sup.num_threads
    /\ sup' = [sup EXCEPT !.active = @ \cup {Head(sup.pending)},
                          !.pending = Tail(@)]
    /\ UNCHANGED <<optVars, drc, cml, extVars>>

\* make_forward_solve with one job list for all the workers.
make_forward_solve_one_list(u, i) ==
    [u EXCEPT !.geo[u.geometry[i]] = u.params,
              !.geo_hist[u.geometry[i]] = Append(@, u.params),
              !.jobs[1] = @ \o (IF u.concurrent THEN <<"forward", "adjoint">>
                                                ELSE <<"forward">>)]
\* make_forward_solve (lines 93-101) on one optimization; make_forward_sim updates
\* the optimization's geometry (update_geometry) and saves its own simulation.
make_forward_solve(u, i) ==
    [u EXCEPT !.geo[u.geometry[i]] = u.params,
              !.geo_hist[u.geometry[i]] = Append(@, u.params),
              !.jobs[i] = IF u.concurrent THEN <<"forward", "adjoint">> ELSE <<"forward">>]

\* make_adjoint_solves (lines 126-140) on one optimization
make_adjoint_solves(u, i) ==
    LET no_forward_fields == u.fields[i] = 0
        params_changed == u.geo[u.geometry[i]] # u.params
        redo_forward_sim == no_forward_fields \/ params_changed
        do_adjoint_sim == redo_forward_sim \/ ~u.concurrent
    IN  [u EXCEPT !.geo[u.geometry[i]] = IF redo_forward_sim THEN u.params ELSE @,
                  !.geo_hist[u.geometry[i]] =
                      IF redo_forward_sim THEN Append(@, u.params) ELSE @,
                  !.redo[i] = redo_forward_sim,
                  !.jobs[i] = (IF redo_forward_sim THEN <<"forward">> ELSE <<>>)
                              \o (IF do_adjoint_sim THEN <<"adjoint">> ELSE <<>>)]

\* process_adjoint_solves (lines 152-159) on one optimization
process_adjoint_solves(u, i) ==
    [u EXCEPT !.fields[i] = IF u.redo[i] THEN u.geo[u.geometry[i]] ELSE @,
              !.grads[i] = u.geo[u.geometry[i]]]

\* A worker finishes its item.
WorkerDone ==
    /\ sup.pcs = "pool"
    /\ \E i \in sup.active :
          LET u == [sup EXCEPT !.active = @ \ {i}]
          IN  sup' = CASE sup.phase = "make_forward" -> make_forward_solve(u, i)
                       [] sup.phase = "make_adjoint" -> make_adjoint_solves(u, i)
                       [] OTHER -> process_adjoint_solves(u, i)
    /\ UNCHANGED <<optVars, drc, cml, extVars>>

\* callable_fom lines 104-121: the map is complete; addjob, runjobs, and the forward
\* solves are processed one after the other.
SuperFomReturns ==
    /\ sup.pcs = "pool" /\ sup.phase = "make_forward"
    /\ sup.pending = <<>> /\ sup.active = {}
    /\ sup' = [sup EXCEPT !.pcs = "fom_done",
                          !.fields = [i \in Opts |-> sup.geo[sup.geometry[i]]],
                          !.full_fom_hist = @ + 1]
    /\ UNCHANGED <<optVars, drc, cml, extVars>>

\* callable_jac lines 124-142: clearjobs, then pool.map(make_adjoint_solves, ...)
SuperCallJac ==
    /\ sup.pcs = "fom_done"
    /\ sup' = [sup EXCEPT !.pcs = "pool", !.phase = "make_adjoint", !.pending = OptList,
                          !.jobs = [i \in Opts |-> <<>>]]
    /\ UNCHANGED <<optVars, drc, cml, extVars>>

\* lines 143-162: addjob, runjobs, then pool.map(process_adjoint_solves, ...)
SuperRunAdjoint ==
    /\ sup.pcs = "pool" /\ sup.phase = "make_adjoint"
    /\ sup.pending = <<>> /\ sup.active = {}
    /\ sup' = [sup EXCEPT !.phase = "process_adjoint", !.pending = OptList]
    /\ UNCHANGED <<optVars, drc, cml, extVars>>

\* lines 163-166: the gradients are summed.
SuperJacReturns ==
    /\ sup.pcs = "pool" /\ sup.phase = "process_adjoint"
    /\ sup.pending = <<>> /\ sup.active = {}
    /\ sup' = [sup EXCEPT !.pcs = "jac_done"]
    /\ UNCHANGED <<optVars, drc, cml, extVars>>

\* plotting_function (lines 168-205) at the end of the optimizer's iteration
SuperCallback ==
    /\ sup.pcs = "jac_done"
    /\ sup' = [sup EXCEPT !.pcs = "iterated", !.iteration = @ + 1,
                          !.params_hist = Append(@, sup.params)]
    /\ UNCHANGED <<optVars, drc, cml, extVars>>

\* SuperOptimization.run lines 339-340
SuperDone ==
    /\ sup.pcs = "iterated" /\ sup.iteration >= MaxSuperIter
    /\ sup' = [sup EXCEPT !.pcs = "done"]
    /\ UNCHANGED <<optVars, drc, cml, extVars>>

SupNext ==
    \/ SuperRun \/ SuperCallFom \/ WorkerTakes \/ WorkerDone \/ SuperFomReturns
    \/ SuperCallJac \/ SuperRunAdjoint \/ SuperJacReturns \/ SuperCallback \/ SuperDone

\* ------------------------------------------------- main_y_branch_generation.py
\* The script has not started.
ScriptIdle ==
    script = [pcm |-> "start", DRC |-> "none", INTC |-> "none", DRC2 |-> "none",
              exc |-> "", exported |-> FALSE, announced |-> FALSE]

\* lines 40-43: y_branch_DRC = DRCCheck(); DRC = y_branch_DRC.run_drc(...)
ScriptFirstDrc ==
    /\ script.pcm = "start" /\ wg.pcw = "idle" /\ drc.pcd = "idle" /\ SesIdle
    /\ \E techname \in Techs, gds_exists \in BOOLEAN, returncode \in ReturnCodes,
          results \in (0 - 1)..MaxDrcErrors :
          drc' = run_drc(drc, techname, gds_exists, returncode, results)
    /\ script' = [script EXCEPT !.pcm = "first_drc"]
    /\ UNCHANGED <<optVars, cml, sup, wg, toolVars>>

\* lines 46-93: if DRC == True the optimization, the sweep and the requirement check
\* (INTC, no prompt) run and the full GDS is exported (lines 89-91); else the script
\* raises.
ScriptOptimize ==
    /\ script.pcm = "first_drc" /\ drc.pcd \in {"returned", "raised"}
    /\ \E intc \in BOOLEAN :
          script' = IF drc.pcd = "raised"
                    THEN [script EXCEPT !.pcm = "raised", !.exc = drc.exc]
                    ELSE IF drc.ret = "True"
                    THEN [script EXCEPT !.pcm = "checked", !.DRC = drc.ret,
                                        !.INTC = IF intc THEN "True" ELSE "False",
                                        !.exported = TRUE]
                    ELSE [script EXCEPT !.pcm = "raised", !.DRC = drc.ret,
                                        !.exc = "Initial DRC Check Failed"]
    /\ UNCHANGED <<optVars, drc, cml, sup, wg, toolVars>>

\* lines 96-99: print("Requirement checks passed"), then
\* DRC2 = y_branch_DRC.run_drc(...) on the same object and technology
ScriptFinalDrc ==
    /\ script.pcm = "checked"
    /\ \E gds_exists \in BOOLEAN, returncode \in ReturnCodes,
          results \in (0 - 1)..MaxDrcErrors :
          drc' = run_drc(drc, drc.techname, gds_exists, returncode, results)
    /\ script' = [script EXCEPT !.pcm = "final_drc", !.announced = TRUE]
    /\ UNCHANGED <<optVars, cml, sup, wg, toolVars>>

\* lines 101-108: success if DRC2 == True and INTC == True, else the script raises.
ScriptEnd ==
    /\ script.pcm = "final_drc" /\ drc.pcd \in {"returned", "raised"}
    /\ script' = IF drc.pcd = "raised"
                 THEN [script EXCEPT !.pcm = "raised", !.exc = drc.exc]
                 ELSE IF drc.ret = "True" /\ script.INTC = "True"
                 THEN [script EXCEPT !.pcm = "done", !.DRC2 = drc.ret]
                 ELSE [script EXCEPT !.pcm = "raised", !.DRC2 = drc.ret,
                                     !.exc = "DRC Check Failed"]
    /\ UNCHANGED <<optVars, drc, cml, sup, wg, toolVars>>

\* ------------------------------------- Waveguide_main.run_design_process
MaxWgRounds == 2     \* passes of the design loop

\* What the operator may type at the y/n prompts of run_design_process.
WgAnswers == {"y", "n", "Y", "yes", "no", ""}

WgIdle ==
    wg = [pcw |-> "idle", decision |-> FALSE, rounds |-> 0, answer |-> "",
          drc_decision |-> "none", generated |-> FALSE, mode |-> "none",
          fdtd |-> "none", opens |-> 0, exc |-> ""]

\* DRCCheck(): a new object on the same KLayout folder
DrcNew(decks) ==
    [pcd |-> "idle", decks |-> decks, drc_file_path |-> "", techname |-> "",
     total_drc_errors |-> 0, view_answer |-> "", continue_answer |-> "",
     asked |-> FALSE, opened |-> 0, ret |-> "none", exc |-> "", calls |-> 0,
     returncode |-> 0]

\* lines 31-33: the two sessions are opened, decision = False
WgStart ==
    /\ wg.pcw = "idle" /\ script.pcm = "start" /\ drc.pcd = "idle" /\ SesIdle
    /\ wg' = [wg EXCEPT !.pcw = "loop", !.mode = "open", !.fdtd = "open",
                        !.opens = @ + 2, !.decision = FALSE]
    /\ UNCHANGED <<optVars, drc, cml, sup, script, toolVars>>

\* lines 35-104: one pass of the loop up to the prompts of run_drc, which is called
\* on a new DRCCheck.
WgDesign ==
    /\ wg.pcw = "loop" /\ wg.decision = FALSE /\ wg.rounds < MaxWgRounds
    /\ \E techname \in Techs, gds_exists \in BOOLEAN, returncode \in ReturnCodes,
          results \in (0 - 1)..MaxDrcErrors :
          drc' = run_drc(DrcNew(drc.decks), techname, gds_exists, returncode, results)
    /\ wg' = [wg EXCEPT !.pcw = "drc_check", !.rounds = @ + 1]
    /\ UNCHANGED <<optVars, cml, sup, script, toolVars>>

\* The prompt after run_drc, going on to the compact models unless the answer is "n".
WgDecideUnlessNo ==
    /\ wg.pcw = "drc_check" /\ drc.pcd = "returned"
    /\ \E answer \in WgAnswers :
          wg' = [wg EXCEPT !.pcw = "loop", !.answer = answer, !.drc_decision = drc.ret,
                           !.decision = (answer # "n")]
    /\ UNCHANGED <<optVars, drc, cml, sup, script, toolVars>>

\* The prompt after run_drc, taking every answer for a yes.
WgDecideAlways ==
    /\ wg.pcw = "drc_check" /\ drc.pcd = "returned"
    /\ \E answer \in WgAnswers :
          wg' = [wg EXCEPT !.pcw = "loop", !.answer = answer, !.drc_decision = drc.ret,
                           !.decision = TRUE]
    /\ UNCHANGED <<optVars, drc, cml, sup, script, toolVars>>
\* lines 106-117: the prompt after run_drc has returned
WgDecide ==
    /\ wg.pcw = "drc_check" /\ drc.pcd = "returned"
    /\ \E answer \in WgAnswers :
          wg' = [wg EXCEPT !.pcw = "loop", !.answer = answer, !.drc_decision = drc.ret,
                    !.decision = IF drc.ret = "False"
                                 THEN answer = "y"
                                 ELSE IF answer = "y" THEN TRUE
                                 ELSE IF answer = "n" THEN FALSE ELSE @]
    /\ UNCHANGED <<optVars, drc, cml, sup, script, toolVars>>

\* run_drc raised: nothing in run_design_process catches it or closes the sessions.
WgRaised ==
    /\ wg.pcw = "drc_check" /\ drc.pcd = "raised"
    /\ wg' = [wg EXCEPT !.pcw = "raised", !.exc = drc.exc]
    /\ UNCHANGED <<optVars, drc, cml, sup, script, toolVars>>

\* The end of run_design_process without mode.close() and fdtd.close().
WgGenerateLeavesOpen ==
    /\ wg.pcw = "loop" /\ wg.decision = TRUE
    /\ wg' = [wg EXCEPT !.pcw = "done", !.generated = TRUE]
    /\ UNCHANGED <<optVars, drc, cml, sup, script, toolVars>>
\* lines 119-127: the loop has ended; the compact model files are generated and the
\* sessions closed.
WgGenerate ==
    /\ wg.pcw = "loop" /\ wg.decision = TRUE
    /\ wg' = [wg EXCEPT !.pcw = "done", !.generated = TRUE, !.mode = "closed",
                        !.fdtd = "closed"]
    /\ UNCHANGED <<optVars, drc, cml, sup, script, toolVars>>

ExtIdle == ScriptIdle /\ WgIdle /\ ToolIdle

ScriptsNext ==
    \/ ScriptFirstDrc \/ ScriptOptimize \/ ScriptFinalDrc \/ ScriptEnd
    \/ WgStart \/ WgDesign \/ WgDecide \/ WgRaised \/ WgGenerate
    \/ AnswerView \/ AnswerContinue
    \/ SimulationInit \/ SimulationDel \/ GetPublisherKeyEnter \/ GetPublisherKeyLeave

\* ---------------------------------------------------------- specifications
vars == <<optVars, drc, cml, sup, extVars>>

\* One Optimization.run
Init == OptInit /\ DrcIdle /\ CmlIdle /\ SupIdle /\ ExtIdle

Spec == Init /\ [][OptNext]_vars

\* One DRCCheck object and its run_drc calls
InitDrc == OptIdle /\ DrcInit /\ CmlIdle /\ SupIdle /\ ExtIdle

SpecDrc == InitDrc /\ [][DrcNext]_vars

\* One CMLCompilerHelper and its generate_cml calls
InitCml == OptIdle /\ DrcIdle /\ CmlIdle /\ SupIdle /\ ExtIdle

SpecCml == InitCml /\ [][CmlNext]_vars

\* One SuperOptimization.run
InitSuper == OptIdle /\ DrcIdle /\ CmlIdle /\ SupInit /\ ExtIdle

SpecSuper == InitSuper /\ [][SupNext]_vars

\* One run of a script that calls run_drc: the y-branch script or the waveguide
\* design process
InitScripts == OptIdle /\ DrcInit /\ CmlIdle /\ SupIdle /\ ExtIdle

SpecScripts == InitScripts /\ [][ScriptsNext]_vars

\* One call of cml_compiler
InitCompiler ==
    OptIdle /\ DrcIdle /\ CmlIdle /\ SupIdle /\ ScriptIdle /\ WgIdle /\ CcInit /\ SesIdle /\ TgIdle
       /\ CallIdle

SpecCompiler == InitCompiler /\ [][CallCmlCompiler]_vars

\* Calls on the objects of techgen
InitTechgen == OptIdle /\ DrcIdle /\ CmlIdle /\ SupIdle /\ ExtIdle

SpecTechgen == InitTechgen /\ [][TechgenNext]_vars

\* One call of a function of the toolkit
InitFn(CallInit) ==
    /\ OptIdle /\ DrcIdle /\ CmlIdle /\ SupIdle /\ ScriptIdle /\ WgIdle
    /\ CcIdle /\ SesIdle /\ TgIdle /\ CallInit

InitLayers == InitFn(LayersInit)

SpecLayers == InitLayers /\ [][CallGetLayerFormattingParams]_vars

InitSource == InitFn(SourceInit)

SpecSource == InitSource /\ [][SourceNext]_vars

InitPrettify == InitFn(PrettifyInit)

SpecPrettify == InitPrettify /\ [][PrettifyNext]_vars

InitSweep == InitFn(SweepInit)

SpecSweep == InitSweep /\ [][CallSweepRadius]_vars

InitTotal == InitFn(TotalInit)

SpecTotal == InitTotal /\ [][CallGetTotalDrcErrors]_vars

InitLoss == InitFn(LossInit)

SpecLoss == InitLoss /\ [][CallLossSweepBendRadii]_vars

\* ---------------------------------------------------------------- the claims
\* v lies within the (min, max) pairs of bnds, component by component.
InBounds(v, bnds) ==
    \A i \in Idx : ~IsNaN(v[i]) /\ bnds[i][1] <= v[i] /\ v[i] <= bnds[i][2]

\* C1: after every optimizer iteration, each component of the parameter vector lies
\* within the caller-supplied [min, max] bound of that component: every vector the
\* optimizer has recorded at the end of an iteration is within the (scaled) bounds.
C1_ParamsWithinBounds ==
    \A k \in 1..Len(optHist.params) : InBounds(heap[optHist.params[k]], bounds)

\* C1, the failing case: fixed-step gradient descent without all_params_equal has met
\* a zero gradient, and the vector it recorded after the step holds nan.
C1_NanRecorded ==
    /\ cfg.kind = "gd" /\ ~cfg.all_params_equal
    /\ \E k \in 1..Len(optHist.params) : \E i \in Idx : IsNaN(heap[optHist.params[k]][i])

\* The solver statuses a run may go on with; 0: no solve has been processed yet.
SolveFailed == ghost.status \notin {0, 1, 2}

\* C3: a failed solve (a bad simulation status, or the scripting bridge failing) is a
\* terminal error of the run: the run is then in its failed state, and from a failed
\* state nothing is retried, no later iteration is made and nothing changes any more.
C3_SolveFailureIsTerminal ==
    /\ [](SolveFailed => pc = "failed" /\ error \in {"UserWarning", "LumApiError"})
    /\ [][pc = "failed" => UNCHANGED optVars]_optVars

\* C3, its case: after at least one completed iteration the solver reports a diverged
\* simulation and the run has failed.
C3_FailedMidRun ==
    pc = "failed" /\ ghost.status = 3 /\ iteration >= 1 /\ error = "UserWarning"

\* The events of an iteration the claims speak of.
Main(events) ==
    SelectSeq(events, LAMBDA e : e \in {"evaluate", "gradient", "clip", "record"})

Count(events, what) == Len(SelectSeq(events, LAMBDA e : e = what))

\* The last n elements of seq (all of it if it is shorter).
Suffix(seq, n) ==
    IF Len(seq) <= n THEN seq ELSE SubSeq(seq, Len(seq) - n + 1, Len(seq))

RecordedParams == [k \in 1..Len(optHist.params) |-> heap[optHist.params[k]]]

PlottedParams == [k \in 1..Len(runHist.params) |-> heap[runHist.params[k]]]

IsPrefix(a, b) == Len(a) <= Len(b) /\ \A k \in 1..Len(a) : a[k] = b[k]

\* C7: the histories of recorded parameter vectors and figures of merit are
\* append-only: every step leaves each recorded entry in place with its value.
C7_HistoryAppendOnly ==
    [][/\ IsPrefix(RecordedParams, RecordedParams')
       /\ IsPrefix(optHist.fom, optHist.fom')
       /\ IsPrefix(PlottedParams, PlottedParams')
       /\ IsPrefix(runHist.fom, runHist.fom')]_optVars

\* C7, its case: an iteration has been recorded and the optimizer has since changed
\* its current vector in place.
C7_RecordedThenUpdated ==
    /\ Len(optHist.params) >= 1 /\ Len(runHist.fom) >= 1
    /\ pc = "gd_callback"

\* C8, as stated: whenever an adjoint simulation is built, the geometry's current
\* parameters equal the parameters the gradient was requested for.
C8_AdjointOnSameParams ==
    \A k \in 1..Len(ghost.adjoint) : ghost.adjoint[k].shape = ghost.adjoint[k].params

\* C8, amended: whenever an adjoint simulation is built, the geometry's current
\* parameters are within the np.allclose tolerance of the requested parameters, and
\* equal to them if the geometry has no continuation phase.
C8_AdjointWithinTolerance ==
    \A k \in 1..Len(ghost.adjoint) :
        /\ \A i \in Idx :
              /\ ~IsNaN(ghost.adjoint[k].shape[i]) /\ ~IsNaN(ghost.adjoint[k].params[i])
              /\ Abs(ghost.adjoint[k].shape[i] - ghost.adjoint[k].params[i]) <= AllCloseTol
        /\ cfg.continuation = 0 => ghost.adjoint[k].shape = ghost.adjoint[k].params

\* C8, its case: an adjoint simulation was built on a geometry that differs from the
\* requested parameters, within the tolerance.
C8_AdjointOnCloseGeometry ==
    /\ ghost.adjoint # <<>>
    /\ ghost.adjoint[1].shape # ghost.adjoint[1].params

\* C9, as stated: every iteration is exactly one forward/adjoint solve pair, one
\* figure of merit, one gradient and one mutation of the parameter vector.
C9_OneSolvePairPerIteration ==
    ghost.lastIter # <<>> =>
        \A e \in {"evaluate", "gradient", "forward_sim", "adjoint_sim", "update"} :
            Count(ghost.lastIter, e) = 1

\* C9, amended: that holds for every iteration of FixedStepGradientDescent.  An
\* iteration of ScipyOptimizers makes as many evaluations as its line search needs:
\* at least one gradient, a forward solve for every evaluation, an adjoint solve if
\* it evaluated at all, and at most one new trial vector per evaluation.
C9_SolvesPerIteration ==
    ghost.lastIter # <<>> =>
        IF cfg.kind = "gd"
        THEN \A e \in {"evaluate", "gradient", "forward_sim", "adjoint_sim", "update"} :
                 Count(ghost.lastIter, e) = 1
        ELSE /\ Count(ghost.lastIter, "gradient") >= 1
             /\ Count(ghost.lastIter, "evaluate") >= 1 =>
                    Count(ghost.lastIter, "adjoint_sim") >= 1
             /\ Count(ghost.lastIter, "forward_sim") >= Count(ghost.lastIter, "evaluate")
             /\ Count(ghost.lastIter, "update") <= Count(ghost.lastIter, "evaluate")

\* C9, its case: an iteration of the wrapped optimizer that evaluated twice.
C9_LineSearchIteration ==
    cfg.kind = "scipy" /\ Count(ghost.lastIter, "evaluate") = 2

\* C2: run_drc returns True only if the operator chose to continue at the continue
\* prompt of that call.
C2_TrueOnlyIfOperatorContinues ==
    drc.ret = "True" =>
        /\ drc.pcd = "returned"
        /\ drc.asked
        /\ Lower(drc.continue_answer) \in {"yes", "y"}

\* C2, its case: the operator declined to view the results of a check with errors and
\* then chose to continue; run_drc returned True.
C2_DeclinedViewThenContinued ==
    /\ drc.ret = "True" /\ drc.total_drc_errors > 0
    /\ drc.view_answer = "No" /\ drc.opened = 0

\* C4, as stated: generate_cml falls back to INTERCONNECT only when the compiler failed
\* and the element list is empty, and it returns normally only if nothing failed but
\* that.
C4_FallbackOnlyAfterCompilerFailure ==
    /\ cml.fallback => cml.compiler = "fail" /\ cml.num_elements = 0
    /\ cml.pcc = "done" => ~cml.cd_failed

\* C4, the failing case: the compiler succeeded, the rename of its output failed, and
\* generate_cml fell back to INTERCONNECT.
C4_FallbackAfterCompilerSuccess ==
    cml.fallback /\ cml.compiler = "ok" /\ cml.pcc = "done"

\* C10, as stated: at no point does more than one thread perform work.
C10_SingleThreaded ==
    Cardinality(sup.active) <= 1

\* C10, amended: a SuperOptimization makes and processes the solves of its
\* co-optimizations in a pool of num_threads worker threads (by default one per
\* co-optimization): at most num_threads of them work at a time, and only while the
\* main thread waits in pool.map; everything else is single-threaded.
C10_AtMostNumThreadsWorkers ==
    /\ Cardinality(sup.active) <= sup.num_threads
    /\ sup.pcs # "pool" => sup.active = {} /\ sup.pending = <<>>

\* C10, its case: two workers are at work at the same time.
C10_TwoWorkersActive ==
    Cardinality(sup.active) = 2 /\ sup.num_threads = 2

\* Worker i returns from its call in this step.
FinishedBy(i) == i \in sup.active /\ i \notin sup'.active

C13_ErrorReturnsFalse ==
    /\ drc.pcd # "raised"
    /\ (drc.pcd = "returned" /\ drc.returncode # 0) => drc.ret = "False"

\* C13, the failing case: the DRC subprocess failed, a results file of an earlier run
\* was counted, and run_drc returned True.
C13_FailedCheckReturnedTrue ==
    drc.pcd = "returned" /\ drc.returncode # 0 /\ drc.ret = "True"

\* C14: a subprocess that exits with a non-zero status is fatal: run_drc ends with
\* CalledProcessError and does not carry on to its prompts.
C14_NonZeroExitIsFatal ==
    drc.returncode # 0 => (drc.pcd = "raised" /\ drc.exc = "CalledProcessError")

\* C14, the failing case: the DRC subprocess exited with a non-zero status and
\* run_drc asks the operator whether to continue, with the count of a results file.
C14_FailedDrcPrompts ==
    drc.returncode # 0 /\ drc.pcd = "prompt_continue" /\ drc.asked

\* C15: cml_compiler called with a command outside the supported ones returns
\* without raising, prints the unsupported-command message and runs no subprocess.
C15_UnsupportedCommandReturns ==
    (cc.pcx # "ready" /\ cc.cmd \notin SupportedCommands) =>
        /\ cc.pcx = "returned" /\ cc.result.exc = ""
        /\ cc.result.stdout = <<"Unsupported command... Exiting...">>
        /\ cc.result.subprocess = <<>>
        /\ ~cc.result.rmtree

\* C15, its case: cml_compiler("bogus", directory) has returned, on a helper with a
\* publisher key, a template folder in the directory and a compiler that would fail.
C15_BogusReturned ==
    /\ cc.pcx = "returned" /\ cc.cmd = "bogus"
    /\ cc.publisher_key # "" /\ cc.template_exists /\ ~cc.ok

GeometryRefs ==
    {geo.current_params} \cup
    {geo.params_hist[k].ref :
        k \in {j \in 1..Len(geo.params_hist) : "ref" \in DOMAIN geo.params_hist[j]}}

HandedOut ==
    GeometryRefs \cup {optHist.params[k] : k \in 1..Len(optHist.params)}
                 \cup {runHist.params[k] : k \in 1..Len(runHist.params)}

\* C17: the optimizer's parameter vector is its own: the geometry and the histories
\* hold other arrays than the optimizer's current vector and its starting point, and
\* no step changes an array that was handed to the geometry or recorded.
C17_OnlyCopiesHandedOut ==
    [][/\ {current_params, start_point} \cap HandedOut = {}
       /\ \A a \in HandedOut : heap'[a] = heap[a]]_optVars

\* C17, its case: the geometry has been given a vector, an iteration has been
\* recorded, and the optimizer has changed its own vector in place since the start.
C17_UpdatedInPlaceAfterHandOut ==
    /\ pc = "gd_callback"
    /\ geo.current_params # 1
    /\ Len(optHist.params) >= 1
    /\ start_point # 0
    /\ heap[start_point] # VScale(cfg.start, ScalingFactor)

\* The sessions that the WaveguideStripSimulation objects of run_design_process hold:
\* each pass of the loop builds one with mode = mode, fdtd = fdtd.
WgssSessions ==
    IF wg.rounds >= 1 THEN {h \in {"mode", "fdtd"} : wg[h] = "open"} ELSE {}

C19_FailureAbortsTransform ==
    tg.last.kind \in YamlFailures
        => tg.last.logged /\ ~tg.last.wrote /\ tg.last.exc = ""

\* C19, its case: a LayerStack was constructed on a missing or unparsable file and
\* its create_lyp_file has raised IndexError.
C19_FailedLoadThenIndexError ==
    /\ tg.last.op = "create_lyp_file"
    /\ tg.layer_stack \in YamlFailures
    /\ tg.last.exc = "IndexError"

\* The XML a new Technology object makes of a 'technology' section, and a new
\* LayerStack of the layers of a file.
FreshLyt(technology) ==
    XmlOf(get_technology_params(DefaultTechnology,
                                [kind |-> "ok", technology |-> technology]))

FreshLyp(layers) ==
    XmlOf(get_layer_formatting_params(Dict(<<>>), [kind |-> "ok", layers |-> layers]))

\* C20, as stated: the XML of a call is what a new object makes of the YAML of that
\* call.
C20_DependsOnlyOnThisYaml ==
    /\ tg.last.op = "create_lyt_file" /\ tg.last.kind = "ok"
          => tg.lyt_file = FreshLyt(tg.merged[Len(tg.merged)])
    /\ tg.last.op = "create_lyp_file" /\ tg.last.wrote
          => tg.lyp_file = FreshLyp(tg.layers)

\* The paths to the scalar and None params of the technology dict.
TechPaths ==
    { <<"technology", "add-other-layers">>, <<"technology", "base-path">>,
      <<"technology", "name">>,
      <<"technology", "writer-options", "gds2", "libname">> }

RECURSIVE Lookup(_, _)
Lookup(d, path) ==
    IF path = <<>> THEN d
    ELSE IF d.t = "dict" /\ HasKey(d, Head(path))
    THEN Lookup(GetKey(d, Head(path)), Tail(path))
    ELSE [t |-> "absent"]

\* The calls of create_lyt_file whose YAML gave the param at path a value.
Setting(path) ==
    {k \in 1..Len(tg.merged) :
        Lookup(Dict(<< <<"technology", tg.merged[k]>> >>), path).t = "scalar"}

\* C20, amended: the XML of create_lyt_file is made of the object's technology
\* params, in which every param has the value of the latest call whose YAML gave it
\* one, and its default if no call did; the XML of create_lyp_file is what a new
\* object makes of the layers of the last YAML that was read.
C20_LatestSettingWins ==
    /\ \A path \in TechPaths :
          Lookup(tg.technology, path) =
              IF Setting(path) = {} THEN Lookup(DefaultTechnology, path)
              ELSE LET k == CHOOSE j \in Setting(path) : \A i \in Setting(path) : i <= j
                   IN  Lookup(Dict(<< <<"technology", tg.merged[k]>> >>), path)
    /\ tg.lyt_file # NoXml => tg.lyt_file = XmlOf(tg.technology)
    /\ tg.last.op = "create_lyp_file" /\ tg.last.wrote
          => tg.lyp_file = FreshLyp(tg.layers)

\* C20, its case: a second create_lyt_file has read its YAML, and its XML is not what
\* a new object makes of that YAML.
C20_SecondCallDiffersFromFresh ==
    /\ tg.last.op = "create_lyt_file" /\ tg.last.kind = "ok"
    /\ Len(tg.merged) = 2
    /\ tg.lyt_file # FreshLyt(tg.merged[2])

\* How often a layer is in the layer properties, at top level or in the group.
Appearances(properties, name) ==
    Cardinality({k \in 1..Len(properties) : properties[k].name = name})
    + Cardinality({<<k, j>> \in (1..Len(properties)) \X (1..Len(LayerNames)) :
                      /\ j <= Len(properties[k].members)
                      /\ properties[k].members[j] = name})

\* C21, as stated: get_layer_formatting_params returns, and every included layer is
\* in the layer properties exactly once: inside the group if the group lists it, and
\* else at top level, where the layers keep the order of the YAML.
C21_EveryLayerOnceInOrder ==
    call.fn = "get_layer_formatting_params" /\ call.pc # "ready" =>
        /\ call.pc = "returned"
        /\ \A i \in 1..Len(LayerNames) :
              call.include[i] =>
                  /\ Appearances(call.properties, LayerNames[i]) = 1
                  /\ InList(call.group_members, LayerNames[i])
                        <=> \E k \in 1..Len(call.properties) :
                               InList(call.properties[k].members, LayerNames[i])
        /\ \A k, l \in 1..Len(call.properties), i, j \in 1..Len(LayerNames) :
              /\ k < l
              /\ call.properties[k].name = LayerNames[i]
              /\ call.properties[l].name = LayerNames[j]
              => i < j

\* C21, its case: the group lists a layer that is not included before one that is,
\* and the included layer is in the layer properties twice.
C21_LayerTwice ==
    /\ call.fn = "get_layer_formatting_params" /\ call.pc = "returned"
    /\ \E i \in 1..Len(LayerNames) :
          call.include[i] /\ Appearances(call.properties, LayerNames[i]) = 2

\* C22: the source written to the DRC YAML reads back as the layer number and
\* datatype of the source of the Process YAML, and so does the source that lumgen
\* takes from it.
C22_SourceRoundTrip ==
    call.fn = "layer_source" /\ call.pc = "dumped" =>
        /\ call.layer_setups = <<call.number, call.datatype>>
        /\ layer_setup(call.drc_dict_source) = <<call.number, call.datatype>>
        /\ LET parts == StrSplit(call.process_layer_source, ":")
           IN  <<IntOf(parts[1]), IntOf(parts[2])>> = <<call.number, call.datatype>>

\* C22, its case: a source of two digits with a leading zero and an @ part has gone
\* through get_DRC_params and create_drc_dict.
C22_TwoDigitSourceDumped ==
    /\ call.fn = "layer_source" /\ call.pc = "dumped"
    /\ call.number >= 10 /\ call.datatype # call.number
    /\ call.source[1] = "0" /\ InList(call.source, "@")
    /\ call.drc_dict_source # SubSeq(call.source, 1, Len(call.drc_dict_source))

\* C23, as stated: a pretty document that goes through prettify again comes out the
\* same, symbol for symbol.
C23_PrettifyIdempotent ==
    call.fn = "prettify" /\ call.pc = "again" => call.again = call.pretty

\* C23, its case: a tree with sub-elements has gone through prettify twice and the
\* second document is longer than the first.
C23_SecondDocumentLonger ==
    /\ call.fn = "prettify" /\ call.pc = "again"
    /\ Len(call.root.childNodes) >= 1 /\ call.root.childNodes[1].kind = "element"
    /\ Len(call.again) > Len(call.pretty)

\* C24: the radius sweep from 1 to 10 in steps of 1 returns exactly 10 GDS files,
\* one per radius, listed in increasing order of radius.
C24_TenFilesInRadiusOrder ==
    /\ call.fn = "sweep_radius" /\ call.pc = "returned"
    /\ call.radius_range = <<1, 10>> /\ call.resolution = 1
    => /\ Len(call.radius_sweep_mapping) = 10
       /\ \A i \in 1..10 :
             /\ call.radius_sweep_mapping[i].val = i
             /\ call.radius_sweep_mapping[i].key = radius_gds_path(i)
       /\ \A i, j \in 1..10 :
             i # j => call.radius_sweep_mapping[i].key # call.radius_sweep_mapping[j].key

\* C24, its case: the sweep from 1 to 10 in steps of 1 has returned its mapping.
C24_SweepOneToTenReturned ==
    /\ call.fn = "sweep_radius" /\ call.pc = "returned"
    /\ call.radius_range = <<1, 10>> /\ call.resolution = 1
    /\ Len(call.radius_sweep_mapping) = 10

\* The number of <item> tags in a document, opening or empty.
ItemTags(doc) ==
    Cardinality({i \in 1..Len(doc) : doc[i].t \in {"open", "empty"} /\ doc[i].v = "item"})

\* C25: get_total_drc_errors of an XML file with N <item> elements returns N.
C25_ReturnsNumberOfItems ==
    call.fn = "get_total_drc_errors" /\ call.pc = "returned"
    => call.result = ItemTags(call.xml_file)

\* C25, its case: the errors of a file with several items, one inside another, have
\* been counted.
C25_NestedItemsCounted ==
    /\ call.fn = "get_total_drc_errors" /\ call.pc = "returned"
    /\ call.result >= 3
    /\ \E i \in 1..Len(call.xml_file) :
          /\ call.xml_file[i] = [t |-> "open", v |-> "values"]

\* The items of the mapping the caller passed whose radius fits the region
Fitting ==
    SelectSeq(call.mapping, LAMBDA item : ~larger_than_region(item.val, call.boundary_size))

\* C26, as stated: loss_sweep_bend_radii ends without error, with every radius that is
\* larger than the simulation region removed from the mapping and exactly the
\* remaining radii simulated.
C26_RemovesLargerSimulatesRest ==
    call.fn = "loss_sweep_bend_radii" /\ call.pc # "ready"
    => /\ call.error = "none"
       /\ call.radius_sweep_mapping = Fitting
       /\ call.simulated = [i \in 1..Len(Fitting) |-> Fitting[i].val]

\* C26, its case: a mapping with radii on both sides of the boundary was passed, the
\* first larger radius was removed and the call ended in RuntimeError with nothing
\* simulated.
C26_RemovalRaised ==
    /\ call.fn = "loss_sweep_bend_radii" /\ call.pc = "raised"
    /\ Len(Fitting) >= 1 /\ Len(Fitting) < Len(call.mapping)
    /\ Len(call.radius_sweep_mapping) = Len(call.mapping) - 1
    /\ call.simulated = <<>>

C28_GeneratesOnlyAfterY ==
    [][/\ (wg'.generated /\ ~wg.generated)
              => wg.pcw = "loop" /\ wg.rounds >= 1 /\ wg.answer = "y"
       /\ (wg.pcw = "drc_check" /\ wg'.pcw = "loop" /\ wg'.answer # "y")
              => ~wg'.decision /\ ~wg'.generated
       /\ (wg.pcw = "loop" /\ wg.rounds >= 1 /\ wg.answer # "y" /\ wg' # wg)
              => /\ wg'.pcw = "drc_check" /\ wg'.rounds = wg.rounds + 1
                 /\ ~wg'.generated /\ drc'.calls = 1]_vars

\* C28, its case: the first design pass ended with an answer other than "y", a second
\* pass was made, and after a "y" the compact model files were generated.
C28_GeneratedAfterRepeatedPass ==
    /\ wg.pcw = "done" /\ wg.generated /\ wg.rounds = 2 /\ wg.answer = "y"

\* run_drc has started the KLayout DRC subprocess in its current or last call.
DeckRun ==
    \/ drc.pcd \in {"prompt_view", "prompt_continue", "raised"}
    \/ drc.pcd = "returned" /\ drc.asked

\* C29, as stated: every run_drc call runs the rule deck whose file name matches the
\* technology name passed to that call, also on a DRCCheck object that has been used
\* with another technology name before.
C29_DeckOfThisTechnology ==
    DeckRun => DeckMatches(drc.techname, drc.drc_file_path)

\* C29, its case: the second call on a DRCCheck object names another technology than
\* the first, whose rule deck the object has kept, and the DRC has run on that deck.
C29_DeckOfEarlierTechnology ==
    /\ DeckRun /\ drc.calls = 2
    /\ drc.techname = "EBeam" /\ drc.drc_file_path = "Cheam_DRC.lydrc"
    /\ 2 \in drc.decks

\* C30, as stated: whenever generate_cml takes the empty-element fallback, the folder
\* source/user_created carries its original name again by the time generate_cml
\* returns or raises.
C30_FolderNameRestored ==
    cml.fallback /\ cml.pcc \in {"done", "raised"} => cml.source = "user_created"

\* C30, its case: in the fallback the folder was renamed to the library's name, an
\* INTERCONNECT call before the rename back raised, and generate_cml has raised with
\* the folder still under the library's name.
C30_RaisedWithFolderRenamed ==
    /\ cml.fallback /\ cml.pcc = "raised" /\ cml.exc = "LumApiError"
    /\ cml.source = "cml_name" /\ cml.calls = 1

====
